---- MODULE Spec2Model ----
(***************************************************************************)
(* A model of the read path of simplezarr (Zarr v2): index math, chunk key *)
(* strings, the codec pipeline, the per-chunk getter and the whole-array   *)
(* loaders load() / load_value().                                          *)
(*                                                                         *)
(* Conventions                                                             *)
(*  - a Rust String is a sequence of one-character strings;                *)
(*  - a byte blob is a sequence of integers in 0..255;                     *)
(*  - ZarrResult<T> is a record [ok, val, err];                            *)
(*  - Option<T> is a record [some, val];                                   *)
(*  - an f64 is a record [t, v]: t = "num" (the integer v), "f32" (the     *)
(*    finite real denoted by the f32 bit pattern v), "nan", "inf", "ninf". *)
(***************************************************************************)
EXTENDS Integers, Sequences, FiniteSets, TLC

VARIABLES
    md,        \* the array's metadata (ZarrV2Metadata / UnifiedMetadata), immutable
    store,     \* the storage backend: path -> outcome of store.get(path)
    reads,     \* set of paths store.get has been called with
    ld,        \* the running load() / load_value() call
    calls,     \* the get_chunk calls in flight (two callers)
    ix,        \* index-math harness: linear_index applied to cartesian_indices
    cp,        \* codec-pipeline harness: apply_codec_pipeline, codec by codec
    pk,        \* parse_chunk harness: one call of parse_chunk on a codec list
    mp,        \* metadata harness: one call of ZarrV2Metadata::parse on a document
    lk,        \* key harness: one call of list_keys
    np,        \* dtype harness: one call of parse_numpy_dtype
    gr         \* group harness: one call of open_group

\* the harness variables the array's own operations leave alone
aux == <<pk, mp, lk, np, gr>>

array_vars == <<md, store, reads, ld, calls, ix, cp>>

vars == <<md, store, reads, ld, calls, ix, cp, aux>>

(***************************************************************************)
(* Bounds of the model.                                                    *)
(***************************************************************************)
MaxRank == 2        \* number of dimensions of a shape
MaxExtent == 3      \* extent of one dimension
MaxElems == 6       \* product(shape), product(chunk_shape)
MaxKeys == 2        \* chunks of an array in the load model
MaxCodecs == 3      \* length of a codec list in the pipeline harness

(***************************************************************************)
(* Generic helpers.                                                        *)
(***************************************************************************)
\* F(x), with x evaluated once before F is applied (`let v = x; F(v)`)
Bind(F(_), x) == CHOOSE r \in {F(v) : v \in {x}} : TRUE

RECURSIVE Product(_)
Product(s) == IF s = <<>> THEN 1 ELSE Head(s) * Product(Tail(s))

RECURSIVE SumSeq(_)
SumSeq(s) == IF s = <<>> THEN 0 ELSE Head(s) + SumSeq(Tail(s))

Reverse(s) == [i \in 1..Len(s) |-> s[Len(s) + 1 - i]]

Min(a, b) == IF a < b THEN a ELSE b

RECURSIVE Concat(_)
Concat(ss) == IF ss = <<>> THEN <<>> ELSE Head(ss) \o Concat(Tail(ss))

Range(s) == {s[i] : i \in 1..Len(s)}

Ok(v) == [ok |-> TRUE, val |-> v, err |-> "none"]
Err(kind) == [ok |-> FALSE, val |-> <<>>, err |-> kind]

(***************************************************************************)
(* Index math (array.rs).                                                  *)
(***************************************************************************)
\* iter().scan(1, |state, dim| { let stride = *state; *state *= dim; Some(stride) })
ScanStrides(dims) == [i \in 1..Len(dims) |-> Product(SubSeq(dims, 1, i - 1))]

\* (a variant of strides that leaves out s.reverse())
strides_unreversed(shape, order) ==
    IF order = "C" THEN ScanStrides(Reverse(shape)) ELSE ScanStrides(shape)

strides(shape, order) ==
    IF order = "C" THEN Reverse(ScanStrides(Reverse(shape)))
                   ELSE ScanStrides(shape)

\* indices.iter().zip(s.iter()).map(|(i, s)| i * s).sum()
ZipDot(a, b) == SumSeq([i \in 1..Min(Len(a), Len(b)) |-> a[i] * b[i]])

linear_index(shape, order, indices) == ZipDot(indices, strides(shape, order))

RECURSIVE cartesian_indices(_)
cartesian_indices(shape) ==
    IF shape = <<>> THEN << <<>> >>
    ELSE LET rest == cartesian_indices(Tail(shape))
             n == Len(rest)
         IN  [p \in 1..(Head(shape) * n) |->
                 <<(p - 1) \div n>> \o rest[((p - 1) % n) + 1]]

(***************************************************************************)
(* Key strings (array.rs parse_key_string, metadata/v2.rs list_keys).      *)
(***************************************************************************)
Digits == <<"0", "1", "2", "3", "4", "5", "6", "7", "8", "9">>

RECURSIVE to_string(_)
to_string(n) ==
    IF n < 10 THEN <<Digits[n + 1]>>
    ELSE to_string(n \div 10) \o <<Digits[(n % 10) + 1]>>

RECURSIVE JoinStr(_, _)
JoinStr(parts, sep) ==
    IF parts = <<>> THEN <<>>
    ELSE IF Len(parts) = 1 THEN parts[1]
    ELSE parts[1] \o <<sep>> \o JoinStr(Tail(parts), sep)

\* key.iter().map(|i| i.to_string()).collect::<Vec<_>>().join(".")
KeyStr(indices) == JoinStr([i \in 1..Len(indices) |-> to_string(indices[i])], ".")

\* str::split: the pieces between separators (always at least one piece)
RECURSIVE Split(_, _)
Split(s, sep) ==
    IF \A i \in 1..Len(s) : s[i] # sep THEN <<s>>
    ELSE LET p == CHOOSE i \in 1..Len(s) : s[i] = sep /\ \A j \in 1..(i - 1) : s[j] # sep
         IN  <<SubSeq(s, 1, p - 1)>> \o Split(SubSeq(s, p + 1, Len(s)), sep)

DigitVal(c) == CHOOSE d \in 0..9 : Digits[d + 1] = c

IsDigit(c) == \E d \in 0..9 : Digits[d + 1] = c

RECURSIVE ParseDigits(_)
ParseDigits(s) ==
    IF s = <<>> THEN 0
    ELSE ParseDigits(SubSeq(s, 1, Len(s) - 1)) * 10 + DigitVal(s[Len(s)])

\* s.parse::<usize>().ok(): decimal digits, after an optional '+'
ParseUsize(s) ==
    LET digits == IF s # <<>> /\ s[1] = "+" THEN Tail(s) ELSE s
    IN  IF digits # <<>> /\ \A i \in 1..Len(digits) : IsDigit(digits[i])
        THEN [some |-> TRUE, val |-> ParseDigits(digits)]
        ELSE [some |-> FALSE, val |-> 0]

RECURSIVE FilterSome(_)
FilterSome(opts) ==
    IF opts = <<>> THEN <<>>
    ELSE (IF Head(opts).some THEN <<Head(opts).val>> ELSE <<>>) \o FilterSome(Tail(opts))

parse_key_string(key) ==
    LET sep == IF "." \in Range(key) THEN "." ELSE "/"
        parts == Split(key, sep)
    IN  FilterSome([i \in 1..Len(parts) |-> ParseUsize(parts[i])])

DivCeil(a, b) == (a + b - 1) \div b

\* (a variant that enumerates with the first index running fastest)
RECURSIVE cartesian_product_first_fastest(_)
cartesian_product_first_fastest(dims) ==
    IF dims = <<>> THEN << <<>> >>
    ELSE LET rest == cartesian_product_first_fastest(Tail(dims))
             n == Head(dims)
         IN  [p \in 1..(n * Len(rest)) |->
                 <<(p - 1) % n>> \o rest[((p - 1) \div n) + 1]]

RECURSIVE cartesian_product(_)
cartesian_product(dims) ==
    IF dims = <<>> THEN << <<>> >>
    ELSE LET rest == cartesian_product(Tail(dims))
             n == Len(rest)
         IN  [p \in 1..(Head(dims) * n) |->
                 <<(p - 1) \div n>> \o rest[((p - 1) % n) + 1]]

list_keys(shape, chunks) ==
    LET chunks_per_dim == [i \in 1..Min(Len(shape), Len(chunks)) |->
                              DivCeil(shape[i], chunks[i])]
        all_indices == cartesian_product(chunks_per_dim)
    IN  [p \in 1..Len(all_indices) |-> KeyStr(all_indices[p])]

(***************************************************************************)
(* Type model (types.rs).  The dtypes carried by the model are UInt8,      *)
(* Int16, Float32 and String: one single-byte type, one multi-byte integer *)
(* (sign and byte order matter), one float (NaN / Inf sentinels apply) and *)
(* one type without a byte width.  A scalar payload is an integer: the     *)
(* value for integers, the IEEE-754 bit pattern for Float32, an index into *)
(* a table of strings for String.                                          *)
(***************************************************************************)
DataTypes == {"UInt8", "Int16", "Float32", "String"}

IsFloat(dt) == dt = "Float32"

\* DataType::byte_size, 0 standing for None
byte_size(dt) ==
    CASE dt = "UInt8" -> 1
      [] dt = "Int16" -> 2
      [] dt = "Float32" -> 4
      [] OTHER -> 0

ZV(dt, v) == [dt |-> dt, v |-> v]

F64(t, v) == [t |-> t, v |-> v]

Pow2(n) == 2 ^ n

\* f32 -> f64 widening (exact): classify the bit pattern
F32ToF64(bits) ==
    LET expo == (bits \div Pow2(23)) % 256
        mant == bits % Pow2(23)
        sign == bits \div Pow2(31)
    IN  IF expo = 255 /\ mant # 0 THEN F64("nan", 0)
        ELSE IF expo = 255 THEN (IF sign = 0 THEN F64("inf", 0) ELSE F64("ninf", 0))
        ELSE IF bits = 0 THEN F64("num", 0)
        ELSE F64("f32", bits)

\* ZarrValue::to_f64 -> Option<f64>
value_to_f64(zv) ==
    CASE zv.dt = "UInt8" -> [some |-> TRUE, val |-> F64("num", zv.v)]
      [] zv.dt = "Int16" -> [some |-> TRUE, val |-> F64("num", zv.v)]
      [] zv.dt = "Float32" -> [some |-> TRUE, val |-> F32ToF64(zv.v)]
      [] OTHER -> [some |-> FALSE, val |-> F64("num", 0)]

UnwrapOr(opt, dflt) == IF opt.some THEN opt.val ELSE dflt

\* FillValue::to_f64
fill_to_f64(fv) ==
    CASE fv.kind = "Value" -> UnwrapOr(value_to_f64(fv.val), F64("num", 0))
      [] fv.kind = "NaN" -> F64("nan", 0)
      [] fv.kind = "Infinity" -> F64("inf", 0)
      [] OTHER -> F64("ninf", 0)

\* default_scalar: zero / false / empty (string 0 of the table is "")
default_scalar(dt) == ZV(dt, 0)

\* FillValue::to_zarr_value
to_zarr_value(fv, dtype) ==
    IF fv.kind = "Value" /\ fv.val.dt = dtype THEN fv.val ELSE default_scalar(dtype)

\* A typed vector: the dense variants are [dt, nulls = FALSE, elems = payloads];
\* VWithNulls(dt, v) is [dt, nulls = TRUE, elems = Option<ZarrValue>].
Vec(dt, elems) == [dt |-> dt, nulls |-> FALSE, elems |-> elems]

VWithNulls(dt, elems) == [dt |-> dt, nulls |-> TRUE, elems |-> elems]

SomeV(zv) == [some |-> TRUE, val |-> zv]

\* ZarrVectorValue::to_f64_vec
to_f64_vec(vec) ==
    IF vec.nulls
    THEN Ok([i \in 1..Len(vec.elems) |->
                IF vec.elems[i].some
                THEN UnwrapOr(value_to_f64(vec.elems[i].val), F64("nan", 0))
                ELSE F64("nan", 0)])
    ELSE IF vec.dt = "String" THEN Err("TypeConversion")
    ELSE Ok([i \in 1..Len(vec.elems) |->
                value_to_f64(ZV(vec.dt, vec.elems[i])).val])

\* (a variant that wraps the f64 conversion of every element)
to_maybe_values_via_f64(vec) ==
    IF vec.nulls THEN vec.elems
    ELSE [i \in 1..Len(vec.elems) |->
             SomeV(ZV("Float64", UnwrapOr(value_to_f64(ZV(vec.dt, vec.elems[i])), F64("nan", 0))))]

\* ZarrVectorValue::to_maybe_values
to_maybe_values(vec) ==
    IF vec.nulls THEN vec.elems
    ELSE [i \in 1..Len(vec.elems) |-> SomeV(ZV(vec.dt, vec.elems[i]))]

\* byteorder: an unsigned integer from its bytes
RECURSIVE ReadLE(_)
ReadLE(bs) == IF bs = <<>> THEN 0 ELSE Head(bs) + 256 * ReadLE(Tail(bs))

ReadBE(bs) == ReadLE(Reverse(bs))

Signed(u, width) == IF u >= Pow2(width - 1) THEN u - Pow2(width) ELSE u

\* read_vec_typed: count = data.len() / elem_size, the trailing partial element dropped
read_vec_typed(endian, data, elem_size, signed_bits) ==
    LET count == Len(data) \div elem_size
        raw(i) == SubSeq(data, (i - 1) * elem_size + 1, i * elem_size)
        u(i) == IF endian = "Big" THEN ReadBE(raw(i)) ELSE ReadLE(raw(i))
    IN  [i \in 1..count |-> IF signed_bits > 0 THEN Signed(u(i), signed_bits) ELSE u(i)]

\* bytes_to_zarr_vector
bytes_to_zarr_vector(endian, dtype, data) ==
    CASE dtype = "UInt8" -> Ok(Vec("UInt8", data))
      [] dtype = "Int16" -> Ok(Vec("Int16", read_vec_typed(endian, data, 2, 16)))
      [] dtype = "Float32" -> Ok(Vec("Float32", read_vec_typed(endian, data, 4, 0)))
      [] OTHER -> Err("Decode")

\* fill_chunk
fill_chunk(value, chunk_shape) ==
    Vec(value.dt, [i \in 1..Product(chunk_shape) |-> value.v])

(***************************************************************************)
(* NumPy dtype strings (metadata/v2.rs).  A parse result is                *)
(* Result<_, String>: [ok, val, err] with err = "msg" for every message.   *)
(***************************************************************************)
Fail == [ok |-> FALSE, val |-> <<>>, err |-> "msg"]

NoUnit == [some |-> FALSE, val |-> <<>>]

\* str::find: the position (0-based) of the first c in s, Len(s) when there is none
Find(s, c) ==
    IF c \in Range(s) THEN (CHOOSE i \in 1..Len(s) : s[i] = c /\ \A j \in 1..(i - 1) : s[j] # c) - 1
    ELSE Len(s)

\* parse_with_time_unit: [ok, byte_size, time_unit]
parse_with_time_unit(s) ==
    IF "[" \in Range(s)
    THEN LET bracket_pos == Find(s, "[")
             size_str == SubSeq(s, 1, bracket_pos)
             rest == SubSeq(s, bracket_pos + 2, Len(s))
         IN  IF "]" \notin Range(rest) THEN [ok |-> FALSE, byte_size |-> 0, time_unit |-> NoUnit]
             ELSE IF ~ParseUsize(size_str).some \/ ParseUsize(size_str).val = 0
             THEN [ok |-> FALSE, byte_size |-> 0, time_unit |-> NoUnit]
             ELSE [ok |-> TRUE, byte_size |-> ParseUsize(size_str).val,
                   time_unit |-> [some |-> TRUE, val |-> SubSeq(rest, 1, Find(rest, "]"))]]
    ELSE IF ~ParseUsize(s).some \/ ParseUsize(s).val = 0
    THEN [ok |-> FALSE, byte_size |-> 0, time_unit |-> NoUnit]
    ELSE [ok |-> TRUE, byte_size |-> ParseUsize(s).val, time_unit |-> NoUnit]

\* parse_numpy_format: [ok, byte_order, type_code, byte_size, time_unit]
NoFormat ==
    [ok |-> FALSE, byte_order |-> "?", type_code |-> "?", byte_size |-> 0, time_unit |-> NoUnit]

parse_numpy_format(s) ==
    IF Len(s) < 3 THEN NoFormat
    ELSE IF s[1] \notin {"<", ">", "|"} THEN NoFormat
    ELSE IF s[2] \notin {"b", "i", "u", "f", "c", "M", "m", "S", "U", "V"} THEN NoFormat
    ELSE LET rest == SubSeq(s, 3, Len(s))
         IN  IF s[2] \in {"M", "m"}
             THEN LET t == parse_with_time_unit(rest)
                  IN  IF ~t.ok THEN NoFormat
                      ELSE [ok |-> TRUE, byte_order |-> s[1], type_code |-> s[2],
                            byte_size |-> t.byte_size, time_unit |-> t.time_unit]
             ELSE IF ~ParseUsize(rest).some THEN NoFormat
             ELSE IF ParseUsize(rest).val = 0 THEN NoFormat
             ELSE [ok |-> TRUE, byte_order |-> s[1], type_code |-> s[2],
                   byte_size |-> ParseUsize(rest).val, time_unit |-> NoUnit]

\* parse_byte_order
parse_byte_order(c) ==
    CASE c = "<" -> "Little"
      [] c = ">" -> "Big"
      [] c = "|" -> "NotApplicable"
      [] OTHER -> "Invalid"

\* (a variant whose table has no size column: the type code alone decides)
core_dtype_by_code(code, size) ==
    CASE code = "b" -> "Bool"
      [] code = "i" -> "Int64"
      [] code = "u" -> "UInt64"
      [] code = "f" -> "Float64"
      [] code = "c" -> "Complex128"
      [] code \in {"S", "U"} -> "String"
      [] code = "V" -> "Bytes"
      [] code \in {"M", "m"} -> "Int64"
      [] OTHER -> "Unsupported"

\* the match of numpy_format_to_dtype; "Unsupported" is its error arm
core_dtype(code, size) ==
    CASE code = "b" /\ size = 1 -> "Bool"
      [] code = "i" /\ size = 1 -> "Int8"
      [] code = "i" /\ size = 2 -> "Int16"
      [] code = "i" /\ size = 4 -> "Int32"
      [] code = "i" /\ size = 8 -> "Int64"
      [] code = "u" /\ size = 1 -> "UInt8"
      [] code = "u" /\ size = 2 -> "UInt16"
      [] code = "u" /\ size = 4 -> "UInt32"
      [] code = "u" /\ size = 8 -> "UInt64"
      [] code = "f" /\ size = 2 -> "Float16"
      [] code = "f" /\ size = 4 -> "Float32"
      [] code = "f" /\ size = 8 -> "Float64"
      [] code = "c" /\ size = 8 -> "Complex64"
      [] code = "c" /\ size = 16 -> "Complex128"
      [] code \in {"S", "U"} -> "String"
      [] code = "V" -> "Bytes"
      [] code \in {"M", "m"} -> "Int64"
      [] OTHER -> "Unsupported"

V2DataType(dt, order, unit) == [data_type |-> dt, byte_order |-> order, time_unit |-> unit]

\* numpy_format_to_dtype
numpy_format_to_dtype(fmt) ==
    IF core_dtype(fmt.type_code, fmt.byte_size) = "Unsupported" THEN Fail
    ELSE IF parse_byte_order(fmt.byte_order) = "Invalid" THEN Fail
    ELSE [ok |-> TRUE,
          val |-> V2DataType(core_dtype(fmt.type_code, fmt.byte_size),
                             parse_byte_order(fmt.byte_order), fmt.time_unit),
          err |-> "none"]

\* parse_numpy_dtype
parse_numpy_dtype(s) ==
    IF ~parse_numpy_format(s).ok THEN Fail ELSE numpy_format_to_dtype(parse_numpy_format(s))

(***************************************************************************)
(* Codecs (codecs/*.rs).  A codec is [id, endian]; endian is the Bytes     *)
(* codec's Option<Endian> ("None" when absent).  The compression libraries *)
(* are outside the repository: a compressed stream is modelled as the      *)
(* format's header followed by the payload stored as is, and decoding      *)
(* fails with Decode on anything else.  FixedScaleOffset (float            *)
(* arithmetic) is not part of the model.                                   *)
(***************************************************************************)
Codec(id, endian) == [id |-> id, endian |-> endian]

HasPrefix(data, pre) == Len(data) >= Len(pre) /\ SubSeq(data, 1, Len(pre)) = pre

Strip(data, n) == SubSeq(data, n + 1, Len(data))

GzipMagic == <<31, 139>>

ZlibMagic == <<120, 156>>

ZstdMagic == <<40, 181, 47, 253>>

Framed(data, magic) == IF HasPrefix(data, magic) THEN Ok(Strip(data, Len(magic))) ELSE Err("Decode")

LZ4_SIZE_PREFIX_BYTES == 4

\* n as a little-endian u32
LE32(n) == <<n % 256, (n \div 256) % 256, (n \div 65536) % 256, (n \div 16777216) % 256>>

\* Lz4Codec::decode.  dest_size is a u32: it is compared by its bytes, which is
\* the comparison of the numbers for every length below 2^32.
lz4_decode(data) ==
    IF Len(data) < LZ4_SIZE_PREFIX_BYTES THEN Err("Decode")
    ELSE LET dest_size == SubSeq(data, 1, LZ4_SIZE_PREFIX_BYTES)
             decompressed == Strip(data, LZ4_SIZE_PREFIX_BYTES)
         IN  IF LE32(Len(decompressed)) # dest_size THEN Err("Decode") ELSE Ok(decompressed)

\* blosc_decompress: nbytes (LE u32 at header bytes 4..8) validated, then the payload
blosc_decode(data) ==
    IF Len(data) < 16 THEN Err("Decode")
    ELSE LET nbytes == SubSeq(data, 5, 8)
             payload == Strip(data, 16)
         IN  IF nbytes = LE32(0) THEN Ok(<<>>)
             ELSE IF LE32(Len(payload)) # nbytes THEN Err("Decode") ELSE Ok(payload)

\* AnyCodec::decode
decode(codec, data) ==
    CASE codec.id = "Bytes" -> Ok(data)
      [] codec.id = "Gzip" -> Framed(data, GzipMagic)
      [] codec.id = "Zlib" -> Framed(data, ZlibMagic)
      [] codec.id = "Zstd" -> Framed(data, ZstdMagic)
      [] codec.id = "Lz4" -> lz4_decode(data)
      [] codec.id = "Blosc" -> blosc_decode(data)
      [] OTHER -> Err("Codec")      \* Sharding

\* AnyCodec::bytes_endian -> Option<Endian>
bytes_endian(codec) == IF codec.id = "Bytes" THEN codec.endian ELSE "None"

\* codecs.iter().rev(): the list indices in the order the loop visits them
\* (a variant that visits the codecs in list order: codecs.iter())
fwd_indices(codecs) == [j \in 1..Len(codecs) |-> j]

rev_indices(codecs) == [j \in 1..Len(codecs) |-> Len(codecs) + 1 - j]

\* apply_codec_pipeline, one turn of its loop at a time: the state is
\* [buf, todo, failed, err, ran], todo the list indices of the codecs still to
\* run and ran the list indices of the codecs run so far.
PipeStart(codecs, data) ==
    [buf |-> data, todo |-> rev_indices(codecs), failed |-> FALSE, err |-> "none",
     ran |-> <<>>]

PipeDone(st) == st.failed \/ st.todo = <<>>

\* (a variant that drops the `?`: a failed decode leaves buf as it was and the
\* loop goes on to the next codec)
PipeStep_continue(codecs, st) ==
    LET i == Head(st.todo)
        r == decode(codecs[i], st.buf)
    IN  [st EXCEPT !.buf = IF r.ok THEN r.val ELSE st.buf, !.todo = Tail(st.todo),
                   !.ran = Append(st.ran, i)]

\* buf = codec.decode(&buf).await?
PipeStep(codecs, st) ==
    LET i == Head(st.todo)
        r == decode(codecs[i], st.buf)
    IN  IF r.ok
        THEN [st EXCEPT !.buf = r.val, !.todo = Tail(st.todo), !.ran = Append(st.ran, i)]
        ELSE [st EXCEPT !.failed = TRUE, !.err = r.err, !.ran = Append(st.ran, i)]

RECURSIVE PipeRun(_, _)
PipeRun(codecs, st) ==
    IF PipeDone(st) THEN st ELSE Bind(LAMBDA next : PipeRun(codecs, next), PipeStep(codecs, st))

\* apply_codec_pipeline, with the codecs it ran
apply_codec_pipeline(codecs, data) ==
    LET st == PipeRun(codecs, PipeStart(codecs, data))
    IN  [res |-> IF st.failed THEN Err(st.err) ELSE Ok(st.buf), ran |-> st.ran]

(***************************************************************************)
(* Zarr v2 arrays (v2.rs): compressor -> codec list, the chunk getter.     *)
(***************************************************************************)
Upper == <<"G", "Z", "I", "P", "L", "B", "F", "O">>

Lower == <<"g", "z", "i", "p", "l", "b", "f", "o">>

LowerChar(c) ==
    IF \E i \in 1..Len(Upper) : Upper[i] = c
    THEN Lower[CHOOSE i \in 1..Len(Upper) : Upper[i] = c]
    ELSE c

to_lowercase(str) == [i \in 1..Len(str) |-> LowerChar(str[i])]

\* (a variant that gives an unknown compressor a codec of its own, one decode
\* has no arm for)
compressor_to_codecs_strict(comp) ==
    LET id_lower == to_lowercase(comp.id)
    IN  CASE id_lower = <<"g", "z", "i", "p">> -> <<Codec("Gzip", "None")>>
          [] id_lower = <<"b", "l", "o", "s", "c">> -> <<Codec("Blosc", "None")>>
          [] id_lower = <<"z", "l", "i", "b">> -> <<Codec("Zlib", "None")>>
          [] id_lower = <<"l", "z", "4">> -> <<Codec("Lz4", "None")>>
          [] id_lower = <<"l", "z", "4", "h", "c">> -> <<Codec("Blosc", "None")>>
          [] id_lower = <<"b", "l", "o", "s", "c", "l", "z">> -> <<Codec("Blosc", "None")>>
          [] id_lower = <<"z", "s", "t", "d">> -> <<Codec("Zstd", "None")>>
          [] id_lower = <<"s", "n", "a", "p", "p", "y">> -> <<Codec("Blosc", "None")>>
          [] OTHER -> <<Codec("Unknown", "None")>>

\* compressor_to_codecs (levels and the other settings do not enter decoding)
compressor_to_codecs(comp) ==
    LET id_lower == to_lowercase(comp.id)
    IN  CASE id_lower = <<"g", "z", "i", "p">> -> <<Codec("Gzip", "None")>>
          [] id_lower = <<"b", "l", "o", "s", "c">> -> <<Codec("Blosc", "None")>>
          [] id_lower = <<"z", "l", "i", "b">> -> <<Codec("Zlib", "None")>>
          [] id_lower = <<"l", "z", "4">> -> <<Codec("Lz4", "None")>>
          [] id_lower = <<"l", "z", "4", "h", "c">> -> <<Codec("Blosc", "None")>>
          [] id_lower = <<"b", "l", "o", "s", "c", "l", "z">> -> <<Codec("Blosc", "None")>>
          [] id_lower = <<"z", "s", "t", "d">> -> <<Codec("Zstd", "None")>>
          [] id_lower = <<"s", "n", "a", "p", "p", "y">> -> <<Codec("Blosc", "None")>>
          [] OTHER -> <<>>

\* (a variant whose Bytes codec is little-endian whatever the dtype)
get_codec_equivalents_little(m) ==
    (IF m.compressor.some THEN compressor_to_codecs(m.compressor) ELSE <<>>)
        \o <<Codec("Bytes", "Little")>>

\* get_codec_equivalents
get_codec_equivalents(m) ==
    (IF m.compressor.some THEN compressor_to_codecs(m.compressor) ELSE <<>>)
        \o <<Codec("Bytes", m.dtype.byte_order)>>

\* (a variant that takes the hint of the last codec that has one)
RECURSIVE FindEndianLast(_)
FindEndianLast(codecs) ==
    IF codecs = <<>> THEN "Little"
    ELSE IF bytes_endian(codecs[Len(codecs)]) # "None" THEN bytes_endian(codecs[Len(codecs)])
    ELSE FindEndianLast(SubSeq(codecs, 1, Len(codecs) - 1))

\* codecs.iter().find_map(|c| c.bytes_endian()).unwrap_or(Endian::Little)
RECURSIVE FindEndian(_)
FindEndian(codecs) ==
    IF codecs = <<>> THEN "Little"
    ELSE IF bytes_endian(Head(codecs)) # "None" THEN bytes_endian(Head(codecs))
    ELSE FindEndian(Tail(codecs))

\* (a variant that sends every present blob, an empty one too, through the codecs)
parse_chunk_eager(data, dtype, chunk_shape, fill_value, codecs) ==
    IF data.some
    THEN LET p == apply_codec_pipeline(codecs, data.val)
         IN  IF ~p.res.ok THEN [res |-> Err(p.res.err), ran |-> p.ran]
             ELSE [res |-> bytes_to_zarr_vector(FindEndian(codecs), dtype, p.res.val),
                   ran |-> p.ran]
    ELSE [res |-> Ok(fill_chunk(to_zarr_value(fill_value, dtype), chunk_shape)),
          ran |-> <<>>]

\* parse_chunk; data is the Option<&[u8]> the store returned.  [res, ran]
parse_chunk(data, dtype, chunk_shape, fill_value, codecs) ==
    IF data.some /\ data.val # <<>>
    THEN Bind(LAMBDA p :
                 IF ~p.res.ok THEN [res |-> Err(p.res.err), ran |-> p.ran]
                 ELSE [res |-> bytes_to_zarr_vector(FindEndian(codecs), dtype, p.res.val),
                       ran |-> p.ran],
              apply_codec_pipeline(codecs, data.val))
    ELSE [res |-> Ok(fill_chunk(to_zarr_value(fill_value, dtype), chunk_shape)),
          ran |-> <<>>]

\* StorageBackend::join (ObjectStoreBackend)
store_join(base, segment) == IF base = <<>> THEN segment ELSE base \o <<"/">> \o segment

base_path == <<"a">>

None == [some |-> FALSE, val |-> <<>>]

SomeB(bytes) == [some |-> TRUE, val |-> bytes]

\* (a variant in which a blob can be fetched once: a call that has returned has
\* taken it)
store_get_once(path) ==
    IF path \notin DOMAIN store THEN Ok(None)
    ELSE IF \E slot \in DOMAIN calls : calls[slot].pc = "done" /\ calls[slot].path = path
    THEN Ok(None)
    ELSE store[path]

\* StorageBackend::get: a path the store has no entry for reads as Ok(None)
store_get(path) == IF path \in DOMAIN store THEN store[path] ELSE Ok(None)

\* (a variant that tests key membership before the key's length)
getter_check_membership_first(key) ==
    IF KeyStr(key) \notin Range(md.keys)
    THEN [ret |-> TRUE, res |-> Err("NotFound"), path |-> <<>>]
    ELSE IF Len(key) # Len(md.shape)
    THEN [ret |-> TRUE, res |-> Err("Other"), path |-> <<>>]
    ELSE [ret |-> FALSE, res |-> Err("none"), path |-> store_join(base_path, KeyStr(key))]

\* (a variant that leaves the membership test to the store)
getter_check_no_membership(key) ==
    IF Len(key) # Len(md.shape)
    THEN [ret |-> TRUE, res |-> Err("Other"), path |-> <<>>]
    ELSE [ret |-> FALSE, res |-> Err("none"), path |-> store_join(base_path, KeyStr(key))]

\* The chunk getter of create_v2_chunk_getter up to its store.get:
\* [ret, res, path]; ret = TRUE when it returned before reading the store.
getter_check(key) ==
    IF Len(key) # Len(md.shape)
    THEN [ret |-> TRUE, res |-> Err("Other"), path |-> <<>>]
    ELSE IF KeyStr(key) \notin Range(md.keys)
    THEN [ret |-> TRUE, res |-> Err("NotFound"), path |-> <<>>]
    ELSE [ret |-> FALSE, res |-> Err("none"), path |-> store_join(base_path, KeyStr(key))]

\* ... and from the store's answer on: [res, ran]
getter_finish(got) ==
    IF ~got.ok THEN [res |-> Err(got.err), ran |-> <<>>]
    ELSE parse_chunk(got.val, md.dtype.data_type, md.chunks, md.fill_value,
                     get_codec_equivalents(md))

\* The whole getter, run to completion: [res, ran, read]
getter(key) ==
    Bind(LAMBDA c :
            IF c.ret THEN [res |-> c.res, ran |-> <<>>, read |-> {}]
            ELSE Bind(LAMBDA f : [res |-> f.res, ran |-> f.ran, read |-> {c.path}],
                      Bind(getter_finish, store_get(c.path))),
         getter_check(key))

(***************************************************************************)
(* Merging chunks into the flat buffer (array.rs merge_chunks,             *)
(* merge_chunks_value).  chunk_map is a function from key strings to typed *)
(* vectors; a HashMap iterates in an arbitrary order, so the merge takes   *)
(* the iteration order `iter` (a permutation of the keys) as a parameter.  *)
(***************************************************************************)
\* (a variant that leaves the chunk's key out of the position)
GlobalPos_local(local_pos, key_indices, chunk_shape) ==
    [d \in 1..Min(Len(local_pos), Min(Len(key_indices), Len(chunk_shape))) |-> local_pos[d]]

\* local_pos.iter().zip(key_indices.iter()).zip(chunk_shape.iter()).map(ki * cs + lp)
GlobalPos(local_pos, key_indices, chunk_shape) ==
    [d \in 1..Min(Len(local_pos), Min(Len(key_indices), Len(chunk_shape))) |->
        key_indices[d] * chunk_shape[d] + local_pos[d]]

\* (a variant of the bounds test that lets every position through)
InBounds_unchecked(global, shape) == \A d \in 1..Min(Len(global), Len(shape)) : global[d] >= 0

\* global.iter().zip(shape.iter()).all(|(g, s)| g < s)
InBounds(global, shape) == \A d \in 1..Min(Len(global), Len(shape)) : global[d] < shape[d]

\* (a variant that pads a short chunk with zeros)
WriteElem_pad(result, m, key_indices, data, chunk_indices, p) ==
    LET global == GlobalPos(chunk_indices[p], key_indices, m.chunks)
        flat == ZipDot(global, strides(m.shape, m.order))
    IN  IF InBounds(global, m.shape) /\ flat < Len(result)
        THEN [result EXCEPT ![flat + 1] = IF p - 1 < Len(data) THEN data[p] ELSE F64("num", 0)]
        ELSE result

\* The body of the inner loop for local index p (1-based): the buffer after it.
WriteElem(result, m, key_indices, data, chunk_indices, p) ==
    LET global == GlobalPos(chunk_indices[p], key_indices, m.chunks)
        flat == ZipDot(global, strides(m.shape, m.order))
    IN  IF InBounds(global, m.shape) /\ flat < Len(result) /\ p - 1 < Len(data)
        THEN [result EXCEPT ![flat + 1] = data[p]]
        ELSE result

RECURSIVE WriteChunk(_, _, _, _, _, _)
WriteChunk(result, m, key_indices, data, chunk_indices, p) ==
    IF p > Len(chunk_indices) THEN result
    ELSE Bind(LAMBDA written : WriteChunk(written, m, key_indices, data, chunk_indices, p + 1),
              WriteElem(result, m, key_indices, data, chunk_indices, p))

RECURSIVE MergeLoop(_, _, _, _)
MergeLoop(result, chunk_map, m, iter) ==
    IF iter = <<>> THEN Ok(result)
    ELSE LET chunk_data == to_f64_vec(chunk_map[Head(iter)])
         IN  IF ~chunk_data.ok THEN Err(chunk_data.err)
             ELSE Bind(LAMBDA merged : MergeLoop(merged, chunk_map, m, Tail(iter)),
                       Bind(LAMBDA a : WriteChunk(result, m, a[1], a[2], a[3], 1),
                            <<parse_key_string(Head(iter)), chunk_data.val,
                              cartesian_indices(m.chunks)>>))

merge_chunks(chunk_map, m, iter) ==
    MergeLoop([i \in 1..Product(m.shape) |-> fill_to_f64(m.fill_value)], chunk_map, m, iter)

RECURSIVE MergeLoopValue(_, _, _, _)
MergeLoopValue(result, chunk_map, m, iter) ==
    IF iter = <<>> THEN result
    ELSE Bind(LAMBDA merged : MergeLoopValue(merged, chunk_map, m, Tail(iter)),
              Bind(LAMBDA a : WriteChunk(result, m, a[1], a[2], a[3], 1),
                   <<parse_key_string(Head(iter)), to_maybe_values(chunk_map[Head(iter)]),
                     cartesian_indices(m.chunks)>>))

merge_chunks_value(chunk_map, m, iter) ==
    Ok(VWithNulls(m.dtype.data_type,
                  MergeLoopValue([i \in 1..Product(m.shape) |->
                                     SomeV(to_zarr_value(m.fill_value, m.dtype.data_type))],
                                 chunk_map, m, iter)))

RECURSIVE PermsOf(_)
PermsOf(S) ==
    IF S = {} THEN {<<>>}
    ELSE UNION {{<<x>> \o q : q \in PermsOf(S \ {x})} : x \in S}

(***************************************************************************)
(* Inputs: the arrays and store contents the model is run on.              *)
(***************************************************************************)
Extents == 1..MaxExtent

ShapesOfRank(r) == {sh \in [1..r -> Extents] : Product(sh) <= MaxElems}

\* <<shape, chunks>> of equal rank with at most MaxKeys chunks
Geometries ==
    UNION {{<<sh, ch>> : sh \in ShapesOfRank(r), ch \in ShapesOfRank(r)} : r \in 0..MaxRank}

SmallGeometries == {g \in Geometries : Len(list_keys(g[1], g[2])) <= MaxKeys}

\* (dtype, byte order) as parse_numpy_dtype gives them: |u1, <i2, >i2, <f4, >f4, |S1
DTypes ==
    {[data_type |-> "UInt8", byte_order |-> "NotApplicable"],
     [data_type |-> "Int16", byte_order |-> "Little"],
     [data_type |-> "Int16", byte_order |-> "Big"],
     [data_type |-> "Float32", byte_order |-> "Little"],
     [data_type |-> "Float32", byte_order |-> "Big"],
     [data_type |-> "String", byte_order |-> "NotApplicable"]}

FillValueOf(zv) == [kind |-> "Value", val |-> zv]

Sentinel(kind) == [kind |-> kind, val |-> ZV("UInt8", 0)]

\* a fill scalar that is not the dtype's default: 7, -3, 2.5f32, a non-empty string
SomeScalar(dt) ==
    CASE dt = "UInt8" -> ZV(dt, 7)
      [] dt = "Int16" -> ZV(dt, -3)
      [] dt = "Float32" -> ZV(dt, 1075838976)
      [] OTHER -> ZV(dt, 1)

\* the fill values parse_fill_value gives for a dtype: a number / string of the
\* dtype, NaN (from "NaN" on floats, from JSON null on every dtype), +-Infinity
FillsFor(dt) ==
    {FillValueOf(SomeScalar(dt)), Sentinel("NaN")}
        \cup (IF IsFloat(dt) THEN {Sentinel("Infinity"), Sentinel("NegativeInfinity")} ELSE {})

NoCompressor == [some |-> FALSE, id |-> <<>>]

Compressor(id) == [some |-> TRUE, id |-> id]

Compressors == {NoCompressor, Compressor(<<"G", "z", "i", "p">>)}

\* a compressor compressor_to_codecs has no codec for (numcodecs' "bz2")
UnknownCompressors == {Compressor(<<"b", "z", "2">>)}

MkMd(sh, ch, dtype, fill, order, comp) ==
    [shape |-> sh, chunks |-> ch, dtype |-> dtype, fill_value |-> fill, order |-> order,
     compressor |-> comp, keys |-> list_keys(sh, ch)]

\* The bytes of n elements of the chunk with ordinal k (0-based) in m.keys: element
\* j of the chunk is numbered e = k * product(chunks) + j, and every element of the
\* array's chunks has bytes of its own.
ElemBytes(dt, e) ==
    CASE dt = "UInt8" -> <<e + 1>>
      [] dt = "Int16" -> <<e + 1, IF e % 2 = 1 THEN 255 ELSE 0>>
      [] dt = "Float32" -> <<e, 0, 192, 63>>
      [] OTHER -> <<e + 1>>

RawChunk(m, k, n) ==
    Concat([j \in 1..n |-> ElemBytes(m.dtype.data_type, k * Product(m.chunks) + j - 1)])

\* What a writer's encode of each codec produces, for the decoders above.
Encode(codec, data) ==
    CASE codec.id = "Gzip" -> GzipMagic \o data
      [] codec.id = "Zlib" -> ZlibMagic \o data
      [] codec.id = "Zstd" -> ZstdMagic \o data
      [] codec.id = "Lz4" -> LE32(Len(data)) \o data
      [] codec.id = "Blosc" -> <<2, 2, 1, 1>> \o LE32(Len(data)) \o LE32(0) \o LE32(Len(data) + 16) \o data
      [] OTHER -> data

RECURSIVE EncodeAll(_, _)
EncodeAll(codecs, data) ==
    IF codecs = <<>> THEN data ELSE EncodeAll(Tail(codecs), Encode(Head(codecs), data))

\* The store's answer for a chunk, by what the store holds for it.
Statuses == {"full", "short", "absent", "empty", "bad", "error"}

Blob(m, k, status) ==
    LET n == Product(m.chunks)
        partial == IF byte_size(m.dtype.data_type) > 1 THEN <<9>> ELSE <<>>
    IN  CASE status = "full" -> Ok(SomeB(EncodeAll(get_codec_equivalents(m), RawChunk(m, k, n))))
          [] status = "short" ->
                Ok(SomeB(EncodeAll(get_codec_equivalents(m), RawChunk(m, k, n - 1) \o partial)))
          [] status = "absent" -> Ok(None)
          [] status = "empty" -> Ok(SomeB(<<>>))
          [] status = "bad" -> Ok(SomeB(RawChunk(m, k, n)))
          [] OTHER -> Err("Storage")

ChunkPath(m, i) == store_join(base_path, m.keys[i])

\* a key of the right dimensionality just outside the chunk grid
OutsideKey(m) == [d \in 1..Len(m.shape) |-> DivCeil(m.shape[d], m.chunks[d])]

OutsidePath(m) == store_join(base_path, KeyStr(OutsideKey(m)))

\* the store holding, for chunk i, the blob of status st[i]
StoreOf(m, st) ==
    [path \in {ChunkPath(m, i) : i \in 1..Len(m.keys)} |->
        LET i == CHOOSE i \in 1..Len(m.keys) : ChunkPath(m, i) = path
        IN  Blob(m, i - 1, st[i])]

\* ... and a blob under the path of the key outside the grid as well
StoreWithOutside(m, st) ==
    [path \in DOMAIN StoreOf(m, st) \cup {OutsidePath(m)} |->
        IF path \in DOMAIN StoreOf(m, st) THEN StoreOf(m, st)[path]
        ELSE Blob(m, Len(m.keys), "full")]

(***************************************************************************)
(* State.                                                                  *)
(***************************************************************************)
IdleLoad ==
    [pc |-> "idle", kind |-> "none", tasks |-> <<>>, next |-> 0, chunk_map |-> <<>>,
     errors |-> <<>>, ret |-> Err("none"), first_failed |-> 0]

IdleCall == [pc |-> "idle", key |-> <<>>, path |-> <<>>, res |-> Err("none"), ran |-> <<>>,
             read |-> FALSE]

IdleIx == [pc |-> "idle", shape |-> <<>>, order |-> "C", k |-> 0, out |-> 0]

IdleCp == [pc |-> "idle", codecs |-> <<>>, raw |-> <<>>, st |-> PipeStart(<<>>, <<>>),
           ret |-> Err("none")]

DefaultMd ==
    MkMd(<<>>, <<>>, [data_type |-> "UInt8", byte_order |-> "NotApplicable"],
         Sentinel("NaN"), "C", NoCompressor)

IdlePk == [pc |-> "idle", codecs |-> <<>>, dtype |-> "UInt8", data |-> <<>>, ret |-> Err("none")]

\* a JSON value: kind is null / string / bool / int / float / array, or missing
\* for a field the document does not have; s is a string's characters, n an
\* integer (0 / 1 for a bool, unused for the one float of the model, 2.5)
J(kind, str, n) == [kind |-> kind, s |-> str, n |-> n]

JNull == J("null", <<>>, 0)

JMissing == J("missing", <<>>, 0)

JStr(str) == J("string", str, 0)

JInt(n) == J("int", <<>>, n)

JFloat == J("float", <<>>, 0)

IdleDoc == [dtype |-> JMissing, fill_value |-> JMissing, shape |-> <<>>, chunks |-> <<>>]

IdleMp == [pc |-> "idle", doc |-> IdleDoc, ok |-> FALSE, err |-> "none", out |-> DefaultMd]

IdleLk == [pc |-> "idle", shape |-> <<>>, chunks |-> <<>>, out |-> <<>>]

IdleNp == [pc |-> "idle", s |-> <<>>, ret |-> Fail]

UnifiedZarrGroup(consolidated, array_names, path, arrays) ==
    [consolidated |-> consolidated, array_names |-> array_names, path |-> path,
     arrays |-> arrays]

NoGroup == UnifiedZarrGroup(FALSE, <<>>, <<>>, <<>>)

GroupOk(group) == [ok |-> TRUE, err |-> "none", group |-> group]

GroupErr(kind) == [ok |-> FALSE, err |-> kind, group |-> NoGroup]

IdleGr ==
    [pc |-> "idle", path |-> <<>>, names |-> <<>>, tasks |-> <<>>, next |-> 1,
     arrays |-> <<>>, errors |-> <<>>, first_failed |-> 0, ret |-> GroupErr("none")]

AuxIdle == pk = IdlePk /\ mp = IdleMp /\ lk = IdleLk /\ np = IdleNp /\ gr = IdleGr

BaseIdle ==
    /\ md = DefaultMd
    /\ store = <<>>
    /\ reads = {}
    /\ ld = IdleLoad
    /\ calls = [slot \in 1..2 |-> IdleCall]
    /\ ix = IdleIx
    /\ cp = IdleCp

\* Arrays of every geometry and order, chunks present, short or absent.
InitGeometry ==
    \E g \in SmallGeometries, order \in {"C", "F"},
       dtype \in {[data_type |-> "UInt8", byte_order |-> "NotApplicable"]} :
        LET m == MkMd(g[1], g[2], dtype, FillValueOf(SomeScalar(dtype.data_type)), order,
                      NoCompressor)
        IN  /\ md = m
            /\ \E st \in [1..Len(m.keys) -> {"full", "short", "absent"}] :
                    store = StoreOf(m, st)

\* Arrays of every dtype, byte order, fill value and compressor, one- and
\* two-chunk geometries, every kind of store answer.
TypedGeometries == {<<<<2>>, <<1>>>>, <<<<2, 2>>, <<2, 2>>>>}

InitTyped ==
    \E g \in TypedGeometries, dtype \in DTypes, comp \in Compressors :
        \E fill \in FillsFor(dtype.data_type) :
            LET m == MkMd(g[1], g[2], dtype, fill, "C", comp)
            IN  /\ md = m
                /\ \E st \in [1..Len(m.keys) -> Statuses] : store = StoreOf(m, st)

Init ==
    /\ InitGeometry \/ InitTyped
    /\ reads = {}
    /\ ld = IdleLoad
    /\ calls = [slot \in 1..2 |-> IdleCall]
    /\ ix = IdleIx
    /\ cp = IdleCp
    /\ AuxIdle

(***************************************************************************)
(* load() and load_value() (array.rs).                                     *)
(***************************************************************************)
PendingTask == [st |-> "pending", res |-> Err("none")]

\* keys.into_iter().map(|key| tokio::spawn(...)).collect(): one task per key
StartLoad(kind) ==
    /\ ld.pc = "idle"
    /\ ld' = [ld EXCEPT !.pc = "joining", !.kind = kind, !.next = 1,
                        !.tasks = [i \in 1..Len(md.keys) |-> PendingTask]]
    /\ UNCHANGED <<aux, md, store, reads, calls, ix, cp>>

\* the body of task i: parse the key, call the getter, pair the chunk with the key
task_body(i) == Bind(getter, parse_key_string(md.keys[i]))

\* Task i runs to completion (tasks complete in any order).
TaskRun(i) ==
    /\ ld.pc = "joining"
    /\ i \in 1..Len(ld.tasks)
    /\ ld.tasks[i].st = "pending"
    /\ LET g == task_body(i)
       IN  /\ ld' = [ld EXCEPT !.tasks[i] = [st |-> "done", res |-> g.res],
                               !.first_failed =
                                   IF ~g.res.ok /\ ld.first_failed = 0 THEN i
                                   ELSE ld.first_failed]
           /\ reads' = reads \cup g.read
    /\ UNCHANGED <<aux, md, store, calls, ix, cp>>

Insert(map, key, value) ==
    [k \in DOMAIN map \cup {key} |-> IF k = key THEN value ELSE map[k]]

\* (a variant that keeps awaiting a handle whose task has failed)
Join_retry ==
    /\ ld.pc = "joining"
    /\ ld.next <= Len(ld.tasks)
    /\ ld.tasks[ld.next].st = "done"
    /\ LET r == ld.tasks[ld.next].res
       IN  ld' = IF r.ok
                 THEN [ld EXCEPT !.next = ld.next + 1,
                                 !.tasks[ld.next].st = "joined",
                                 !.chunk_map = Insert(ld.chunk_map, md.keys[ld.next], r.val)]
                 ELSE ld
    /\ UNCHANGED <<aux, md, store, reads, calls, ix, cp>>

\* One turn of `for handle in handles { match handle.await ... }`
Join ==
    /\ ld.pc = "joining"
    /\ ld.next <= Len(ld.tasks)
    /\ ld.tasks[ld.next].st = "done"
    /\ LET r == ld.tasks[ld.next].res
       IN  ld' = [ld EXCEPT !.next = ld.next + 1,
                            !.tasks[ld.next].st = "joined",
                            !.chunk_map = IF r.ok THEN Insert(ld.chunk_map, md.keys[ld.next], r.val)
                                          ELSE ld.chunk_map,
                            !.errors = IF r.ok THEN ld.errors ELSE Append(ld.errors, r.err)]
    /\ UNCHANGED <<aux, md, store, reads, calls, ix, cp>>

\* (a variant that surfaces the last error collected: errors.into_iter().last())
load_return_last(kind, errors, chunk_map, iter) ==
    IF errors # <<>> THEN Err(errors[Len(errors)])
    ELSE IF kind = "f64" THEN merge_chunks(chunk_map, md, iter)
    ELSE merge_chunks_value(chunk_map, md, iter)

\* (a variant that surfaces the error of the task that failed first in time)
load_return_chronological(kind, errors, chunk_map, iter) ==
    IF errors # <<>> THEN Err(ld.tasks[ld.first_failed].res.err)
    ELSE IF kind = "f64" THEN merge_chunks(chunk_map, md, iter)
    ELSE merge_chunks_value(chunk_map, md, iter)

\* errors.into_iter().next() / merge_chunks(&chunk_map, &self.metadata)
load_return(kind, errors, chunk_map, iter) ==
    IF errors # <<>> THEN Err(errors[1])
    ELSE IF kind = "f64" THEN merge_chunks(chunk_map, md, iter)
    ELSE merge_chunks_value(chunk_map, md, iter)

\* (a variant that merges as soon as the first handle has been awaited)
Finish_early ==
    /\ ld.pc = "joining"
    /\ ld.next > 1
    /\ \E iter \in PermsOf(DOMAIN ld.chunk_map) :
          ld' = [ld EXCEPT !.pc = "done",
                           !.ret = load_return(ld.kind, ld.errors, ld.chunk_map, iter)]
    /\ UNCHANGED <<aux, md, store, reads, calls, ix, cp>>

Finish ==
    /\ ld.pc = "joining"
    /\ ld.next = Len(ld.tasks) + 1
    /\ \E iter \in PermsOf(DOMAIN ld.chunk_map) :
          ld' = [ld EXCEPT !.pc = "done",
                           !.ret = load_return(ld.kind, ld.errors, ld.chunk_map, iter)]
    /\ UNCHANGED <<aux, md, store, reads, calls, ix, cp>>

Next ==
    \/ \E kind \in {"f64", "value"} : StartLoad(kind)
    \/ \E i \in 1..MaxElems : TaskRun(i)
    \/ Join
    \/ Finish

Spec == Init /\ [][Next]_vars

\* Arrays of one and two dimensions with two chunks, every kind of store answer
\* for each chunk.
LiveGeometries == {<<<<2>>, <<1>>>>, <<<<3>>, <<2>>>>, <<<<2, 2>>, <<2, 1>>>>}

LiveDTypes ==
    {[data_type |-> "UInt8", byte_order |-> "NotApplicable"],
     [data_type |-> "Int16", byte_order |-> "Big"]}

InitLive ==
    /\ \E g \in LiveGeometries, comp \in Compressors, dtype \in LiveDTypes :
          LET m == MkMd(g[1], g[2], dtype, FillValueOf(SomeScalar(dtype.data_type)), "C", comp)
          IN  /\ md = m
              /\ \E st \in [1..Len(m.keys) -> Statuses] : store = StoreOf(m, st)
    /\ reads = {}
    /\ ld = IdleLoad
    /\ calls = [slot \in 1..2 |-> IdleCall]
    /\ ix = IdleIx
    /\ cp = IdleCp
    /\ AuxIdle

\* load() under a runtime that runs every spawned task once its store.get has
\* returned and resumes load() whenever the handle it awaits is ready
SpecLive ==
    /\ InitLive
    /\ [][Next]_vars
    /\ WF_vars(\E i \in 1..MaxElems : TaskRun(i))
    /\ WF_vars(Join)
    /\ WF_vars(Finish)

(***************************************************************************)
(* get_chunk: two callers of one array's chunk getter (array.rs get_chunk, *)
(* v2.rs create_v2_chunk_getter), each suspended at its store.get.         *)
(***************************************************************************)
CallGeometries == {<<<<3>>, <<2>>>>, <<<<2, 2>>, <<2, 1>>>>}

\* every chunk full but at most one
OneOff(n) == {st \in [1..n -> Statuses] : Cardinality({i \in 1..n : st[i] # "full"}) <= 1}

InitCall ==
    /\ \E g \in CallGeometries, dtype \in DTypes, comp \in Compressors \cup UnknownCompressors :
        \E fill \in FillsFor(dtype.data_type) :
            LET m == MkMd(g[1], g[2], dtype, fill, "C", comp)
            IN  /\ md = m
                /\ \E st \in OneOff(Len(m.keys)) :
                        store \in {StoreOf(m, st), StoreWithOutside(m, st)}
    /\ reads = {}
    /\ ld = IdleLoad
    /\ calls = [slot \in 1..2 |-> IdleCall]
    /\ ix = IdleIx
    /\ cp = IdleCp
    /\ AuxIdle

ValidKeys == {parse_key_string(md.keys[i]) : i \in 1..Len(md.keys)}

\* keys a caller may pass: the chunk grid's, one outside the grid, and keys of
\* one dimension more or less than the array has
CallKeys ==
    ValidKeys \cup {OutsideKey(md), Append(OutsideKey(md), 0), Tail(OutsideKey(md))}

\* The getter runs up to its store.get (or returns an error before it).
CallStart(slot, key) ==
    /\ calls[slot].pc = "idle"
    /\ LET c == getter_check(key)
       IN  IF c.ret
           THEN /\ calls' = [calls EXCEPT ![slot] =
                                [IdleCall EXCEPT !.pc = "done", !.key = key, !.res = c.res]]
                /\ UNCHANGED reads
           ELSE /\ calls' = [calls EXCEPT ![slot] =
                                [IdleCall EXCEPT !.pc = "fetching", !.key = key,
                                                 !.path = c.path, !.read = TRUE]]
                /\ reads' = reads \cup {c.path}
    /\ UNCHANGED <<aux, md, store, ld, ix, cp>>

\* The store answers and the getter runs to its end.
CallFinish(slot) ==
    /\ calls[slot].pc = "fetching"
    /\ LET f == getter_finish(store_get(calls[slot].path))
       IN  calls' = [calls EXCEPT ![slot].pc = "done", ![slot].res = f.res,
                                  ![slot].ran = f.ran]
    /\ UNCHANGED <<aux, md, store, reads, ld, ix, cp>>

NextCall ==
    \/ \E slot \in 1..2 : \E key \in CallKeys : CallStart(slot, key)
    \/ \E slot \in 1..2 : CallFinish(slot)

SpecCall == InitCall /\ [][NextCall]_vars

(***************************************************************************)
(* Index math harness: linear_index applied to the k-th tuple of           *)
(* cartesian_indices.                                                      *)
(***************************************************************************)
IndexShapes == UNION {[1..r -> 0..MaxExtent] : r \in 0..MaxRank}

InitIndex ==
    /\ \E sh \in IndexShapes, order \in {"C", "F"} :
          ix = [IdleIx EXCEPT !.shape = sh, !.order = order]
    /\ md = DefaultMd
    /\ store = <<>>
    /\ reads = {}
    /\ ld = IdleLoad
    /\ calls = [slot \in 1..2 |-> IdleCall]
    /\ cp = IdleCp
    /\ AuxIdle

Flatten(k) ==
    /\ ix.pc = "idle"
    /\ k < Len(cartesian_indices(ix.shape))
    /\ ix' = [ix EXCEPT !.pc = "done", !.k = k,
                        !.out = linear_index(ix.shape, ix.order,
                                             cartesian_indices(ix.shape)[k + 1])]
    /\ UNCHANGED <<aux, md, store, reads, ld, calls, cp>>

NextIndex == \E k \in 0..(MaxExtent ^ MaxRank) : Flatten(k)

SpecIndex == InitIndex /\ [][NextIndex]_vars

(***************************************************************************)
(* Codec pipeline harness: apply_codec_pipeline on codec lists of every    *)
(* make-up, one codec per step.                                            *)
(***************************************************************************)
CodecKinds ==
    {Codec("Bytes", "Little"), Codec("Gzip", "None"), Codec("Zlib", "None"),
     Codec("Lz4", "None"), Codec("Sharding", "None")}

CodecLists == UNION {[1..n -> CodecKinds] : n \in 0..MaxCodecs}

\* blobs: a payload wrapped by every list of compressors, in every nesting
Wrappers == UNION {[1..n -> {Codec("Gzip", "None"), Codec("Zlib", "None"), Codec("Lz4", "None")}] :
                      n \in 0..MaxCodecs}

PipeBlobs == {EncodeAll(w, <<7, 8>>) : w \in Wrappers}

InitCodec ==
    /\ \E codecs \in CodecLists, raw \in PipeBlobs :
          cp = [IdleCp EXCEPT !.codecs = codecs, !.raw = raw]
    /\ md = DefaultMd
    /\ store = <<>>
    /\ reads = {}
    /\ ld = IdleLoad
    /\ calls = [slot \in 1..2 |-> IdleCall]
    /\ ix = IdleIx
    /\ AuxIdle

\* let mut buf = data.to_vec();
PipeBegin ==
    /\ cp.pc = "idle"
    /\ cp' = [cp EXCEPT !.pc = "loop", !.st = PipeStart(cp.codecs, cp.raw)]
    /\ UNCHANGED <<aux, md, store, reads, ld, calls, ix>>

\* one turn of the loop
PipeTurn ==
    /\ cp.pc = "loop"
    /\ ~PipeDone(cp.st)
    /\ cp' = [cp EXCEPT !.st = PipeStep(cp.codecs, cp.st)]
    /\ UNCHANGED <<aux, md, store, reads, ld, calls, ix>>

\* the `?` of a failed decode, or Ok(buf) after the loop
PipeReturn ==
    /\ cp.pc = "loop"
    /\ PipeDone(cp.st)
    /\ cp' = [cp EXCEPT !.pc = "done",
                        !.ret = IF cp.st.failed THEN Err(cp.st.err) ELSE Ok(cp.st.buf)]
    /\ UNCHANGED <<aux, md, store, reads, ld, calls, ix>>

NextCodec == PipeBegin \/ PipeTurn \/ PipeReturn

SpecCodec == InitCodec /\ [][NextCodec]_vars

(***************************************************************************)
(* Array metadata documents (metadata/mod.rs parse_fill_value,             *)
(* metadata/v2.rs ZarrV2Metadata::parse).  A document is a record of the   *)
(* JSON values of its fields.  Scalar payloads: the integer for integer    *)
(* dtypes, 0 / 1 for Bool, the f32 bit pattern of the number for the float *)
(* and complex dtypes, the index of the string (0 for "") for String and   *)
(* Bytes.                                                                  *)
(***************************************************************************)
FloatTypes == {"Float16", "Float32", "Float64", "Complex64", "Complex128"}

\* the f32 bit patterns of the numbers the documents hold
F32Bits(v) ==
    IF v.kind = "float" THEN 1075838976
    ELSE CASE v.n = 0 -> 0
           [] v.n = 7 -> 1088421888
           [] v.n = 300 -> 1133903872
           [] OTHER -> 1193033728

StrId(str) == IF str = <<>> THEN 0 ELSE 1

OkFill(fv) == [ok |-> TRUE, val |-> fv, err |-> "none"]

FailFill == [ok |-> FALSE, val |-> Sentinel("NaN"), err |-> "msg"]

\* n.as_i64() within [lo, hi] / n.as_u64() within [0, hi]
IntFill(dtype, v, lo, hi) ==
    IF v.kind = "int" /\ lo <= v.n /\ v.n <= hi THEN OkFill(FillValueOf(ZV(dtype, v.n)))
    ELSE FailFill

\* parse_numeric_fill (the 32- and 64-bit ranges are beyond the model's integers)
parse_numeric_fill(dtype, v) ==
    CASE dtype = "Int8" -> IntFill(dtype, v, -128, 127)
      [] dtype = "Int16" -> IntFill(dtype, v, -32768, 32767)
      [] dtype \in {"Int32", "Int64"} -> IntFill(dtype, v, v.n, v.n)
      [] dtype = "UInt8" -> IntFill(dtype, v, 0, 255)
      [] dtype = "UInt16" -> IntFill(dtype, v, 0, 65535)
      [] dtype \in {"UInt32", "UInt64"} -> IntFill(dtype, v, 0, v.n)
      [] dtype \in FloatTypes -> OkFill(FillValueOf(ZV(dtype, F32Bits(v))))
      [] dtype = "Bool" ->
            IF v.kind = "int" THEN OkFill(FillValueOf(ZV(dtype, IF v.n # 0 THEN 1 ELSE 0)))
            ELSE FailFill
      [] OTHER -> FailFill

\* parse_fill_value
parse_fill_value(dtype, v) ==
    CASE v.kind = "null" -> OkFill(Sentinel("NaN"))
      [] v.kind = "string" ->
            (CASE v.s = <<"N", "a", "N">> ->
                    IF dtype \in FloatTypes THEN OkFill(Sentinel("NaN")) ELSE FailFill
               [] v.s = <<"I", "n", "f", "i", "n", "i", "t", "y">> ->
                    IF dtype \in FloatTypes THEN OkFill(Sentinel("Infinity")) ELSE FailFill
               [] v.s = <<"-", "I", "n", "f", "i", "n", "i", "t", "y">> ->
                    IF dtype \in FloatTypes THEN OkFill(Sentinel("NegativeInfinity"))
                    ELSE FailFill
               [] OTHER ->
                    IF dtype \in {"String", "Bytes"}
                    THEN OkFill(FillValueOf(ZV(dtype, StrId(v.s))))
                    ELSE FailFill)
      [] v.kind = "bool" ->
            IF dtype = "Bool" THEN OkFill(FillValueOf(ZV(dtype, v.n))) ELSE FailFill
      [] v.kind \in {"int", "float"} -> parse_numeric_fill(dtype, v)
      [] OTHER -> FailFill

\* Vec<usize> from a JSON array of integers
IsUsizeVec(dims) == \A d \in 1..Len(dims) : dims[d] >= 0

\* usize::div_ceil panics on a zero divisor
ListKeysPanics(shape, chunks) ==
    \E d \in 1..Min(Len(shape), Len(chunks)) : chunks[d] = 0

\* ZarrV2Metadata::parse: [ok, err, out]; err = "panic" when the call does not
\* return
ZarrV2Metadata_parse(doc) ==
    LET failed == [ok |-> FALSE, err |-> "Metadata", out |-> DefaultMd]
        v2dtype == parse_numpy_dtype(doc.dtype.s)
        fill_val == IF doc.fill_value.kind = "missing" THEN JNull ELSE doc.fill_value
    IN  IF doc.dtype.kind = "missing" THEN failed
        ELSE IF doc.dtype.kind # "string" THEN failed
        ELSE IF ~v2dtype.ok THEN failed
        ELSE IF ~parse_fill_value(v2dtype.val.data_type, fill_val).ok THEN failed
        ELSE IF ~IsUsizeVec(doc.shape) \/ ~IsUsizeVec(doc.chunks) THEN failed
        ELSE IF doc.fill_value.kind = "missing" THEN failed
        ELSE IF ListKeysPanics(doc.shape, doc.chunks)
        THEN [ok |-> FALSE, err |-> "panic", out |-> DefaultMd]
        ELSE [ok |-> TRUE, err |-> "none",
              out |-> MkMd(doc.shape, doc.chunks,
                           [data_type |-> v2dtype.val.data_type,
                            byte_order |-> v2dtype.val.byte_order],
                           parse_fill_value(v2dtype.val.data_type, fill_val).val,
                           "C", NoCompressor)]

(***************************************************************************)
(* Consolidated metadata (metadata/v2.rs) and open / open_group (v2.rs).   *)
(***************************************************************************)
EndsWith(str, suffix) ==
    Len(str) >= Len(suffix) /\ SubSeq(str, Len(str) - Len(suffix) + 1, Len(str)) = suffix

\* str::replace(pat, ""): every non-overlapping occurrence of pat is removed
RECURSIVE Remove(_, _)
Remove(str, pat) ==
    IF str = <<>> THEN <<>>
    ELSE IF HasPrefix(str, pat) THEN Remove(Strip(str, Len(pat)), pat)
    ELSE <<Head(str)>> \o Remove(Tail(str), pat)

\* str::trim_start_matches(c)
RECURSIVE trim_start_matches(_, _)
trim_start_matches(str, c) ==
    IF str # <<>> /\ Head(str) = c THEN trim_start_matches(Tail(str), c) ELSE str

DotZ == <<".", "z">>

DotZarray == <<".", "z", "a", "r", "r", "a", "y">>

SlashDotZarray == <<"/", ".", "z", "a", "r", "r", "a", "y">>

DotZattrs == <<".", "z", "a", "t", "t", "r", "s">>

DotZgroup == <<".", "z", "g", "r", "o", "u", "p">>

DotZmetadata == <<".", "z", "m", "e", "t", "a", "d", "a", "t", "a">>

\* key.replace("/.zarray", "").replace(".zarray", "") and trim_start_matches('/')
array_name(key) == trim_start_matches(Remove(Remove(key, SlashDotZarray), DotZarray), "/")

\* the keys the loop of ZarrConsolidatedMetadata::parse passes over
is_filtered(key) == HasPrefix(key, DotZ) \/ EndsWith(key, DotZattrs) \/ EndsWith(key, DotZgroup)

\* a JSON value of the metadata map: an object with or without "shape" (doc
\* holds the fields of the object that ZarrV2Metadata::parse reads), or a
\* value that is no object
Entry(kind, has_shape, doc) == [kind |-> kind, has_shape |-> has_shape, doc |-> doc]

\* ZarrV2Metadata::parse on the bytes of such a value
parse_entry(value) ==
    IF value.kind # "object" \/ ~value.has_shape
    THEN [ok |-> FALSE, err |-> "Metadata", out |-> DefaultMd]
    ELSE ZarrV2Metadata_parse(value.doc)

\* one turn of the loop over metadata_obj, parsed being the outcome of
\* ZarrV2Metadata::parse on the value where the turn calls it: [panic, arrays],
\* arrays a map from name to ZarrV2Metadata
consolidated_turn(arrays, key, value, parsed) ==
    IF is_filtered(key) THEN [panic |-> FALSE, arrays |-> arrays]
    ELSE IF ~EndsWith(key, DotZarray) /\ ~EndsWith(key, SlashDotZarray)
            /\ ~(value.kind = "object" /\ value.has_shape)
    THEN [panic |-> FALSE, arrays |-> arrays]
    ELSE IF parsed.err = "panic" THEN [panic |-> TRUE, arrays |-> arrays]
    ELSE IF parsed.ok
    THEN [panic |-> FALSE,
          arrays |-> [k \in DOMAIN arrays \cup {array_name(key)} |->
                         IF k = array_name(key) THEN parsed.out ELSE arrays[k]]]
    ELSE [panic |-> FALSE, arrays |-> arrays]

\* the loop over metadata_obj, from the state `acc` of an earlier turn
RECURSIVE consolidated_loop(_, _)
consolidated_loop(entries, acc) ==
    IF entries = <<>> \/ acc.panic THEN acc
    ELSE consolidated_loop(Tail(entries),
                           consolidated_turn(acc.arrays, Head(entries).key, Head(entries).value,
                                             parse_entry(Head(entries).value)))

\* obj.get("zarr_consolidated_format").and_then(|v| v.as_u64()).unwrap_or(1) as u32
\* (kind "int_2p32" is the integer 2^32 + n)
consolidated_format(v) ==
    IF v.kind = "int" /\ v.n >= 0 THEN v.n
    ELSE IF v.kind = "int_2p32" THEN v.n
    ELSE 1

\* the Ok(ZarrConsolidatedMetadata { .. }) the loop ends in, unless it panicked
consolidated_result(doc, looped) ==
    IF looped.panic
    THEN [ok |-> FALSE, err |-> "panic", zarr_consolidated_format |-> 0, metadata |-> <<>>]
    ELSE [ok |-> TRUE, err |-> "none",
          zarr_consolidated_format |-> consolidated_format(doc.format),
          metadata |-> looped.arrays]

\* ZarrConsolidatedMetadata::parse: doc.kind is "invalid" for bytes that are no
\* JSON, "other" for JSON that is no object; doc.metadata.kind likewise
ZarrConsolidatedMetadata_parse(doc) ==
    IF doc.kind # "object" \/ doc.metadata.kind # "object"
    THEN [ok |-> FALSE, err |-> "Metadata", zarr_consolidated_format |-> 0, metadata |-> <<>>]
    ELSE consolidated_result(doc, consolidated_loop(doc.metadata.entries,
                                                    [panic |-> FALSE, arrays |-> <<>>]))

UnifiedZarrArray(m, path) == [metadata |-> m, path |-> path, codecs |-> get_codec_equivalents(m)]

NoArray == [metadata |-> DefaultMd, path |-> <<>>, codecs |-> <<>>]

\* open from ZarrV2Metadata::parse(&bytes) on
open_parsed(path, parsed) ==
    IF ~parsed.ok THEN [ok |-> FALSE, err |-> parsed.err, val |-> NoArray]
    ELSE [ok |-> TRUE, err |-> "none", val |-> UnifiedZarrArray(parsed.out, path)]

\* open from the answer of store.get(&zarray_path) on
open_got(path, got) ==
    IF ~got.ok THEN [ok |-> FALSE, err |-> got.err, val |-> NoArray]
    ELSE IF ~got.val.some THEN [ok |-> FALSE, err |-> "NotFound", val |-> NoArray]
    ELSE open_parsed(path, parse_entry(got.val.val))

\* open(store, path): [ok, err, val]; err = "panic" when the call does not return
open(path) == open_got(path, store_get(store_join(path, DotZarray)))

\* the Some(bytes) arm of open_group from ZarrConsolidatedMetadata::parse(&bytes)
\* on; names is the order in which consolidated.metadata.keys() yields the names
open_group_consolidated(path, consolidated, names) ==
    IF ~consolidated.ok THEN GroupErr(consolidated.err)
    ELSE IF consolidated.zarr_consolidated_format # 1 THEN GroupErr("Metadata")
    ELSE GroupOk(UnifiedZarrGroup(TRUE, names, path,
                     [name \in DOMAIN consolidated.metadata |->
                         UnifiedZarrArray(consolidated.metadata[name],
                                          store_join(path, name))]))

\* (a variant that surfaces the last error collected)
open_group_return_last(path, array_names, arrays, errors) ==
    IF errors # <<>> THEN GroupErr(errors[Len(errors)])
    ELSE GroupOk(UnifiedZarrGroup(FALSE, array_names, path, arrays))

\* errors.into_iter().next(), or the group of the arrays that opened
open_group_return(path, array_names, arrays, errors) ==
    IF errors # <<>> THEN GroupErr(errors[1])
    ELSE GroupOk(UnifiedZarrGroup(FALSE, array_names, path, arrays))

(***************************************************************************)
(* Metadata harness: ZarrV2Metadata::parse on documents of every dtype and *)
(* fill value, with shape and chunks of any two lengths.                   *)
(***************************************************************************)
DocDtypes ==
    {JMissing, JInt(4),
     JStr(<<"|", "b", "1">>), JStr(<<"<", "i", "2">>), JStr(<<"|", "u", "1">>),
     JStr(<<">", "f", "4">>), JStr(<<"<", "c", "8">>), JStr(<<"|", "S", "4">>),
     JStr(<<"<", "M", "8", "[", "n", "s", "]">>), JStr(<<"<", "i", "3">>)}

DocFills ==
    {JMissing, JNull, JStr(<<"N", "a", "N">>), JStr(<<"I", "n", "f", "i", "n", "i", "t", "y">>),
     JStr(<<"-", "I", "n", "f", "i", "n", "i", "t", "y">>), JStr(<<"a">>), JStr(<<>>),
     J("bool", <<>>, 1), JInt(0), JInt(7), JInt(-3), JInt(300), JInt(40000), JFloat,
     J("array", <<>>, 0)}

DocDims == UNION {[1..r -> {-1, 0, 1, 3}] : r \in 0..2}

InitMeta ==
    /\ \E dtype \in DocDtypes, fill \in DocFills, shape \in DocDims, chunks \in DocDims :
          mp = [IdleMp EXCEPT !.doc = [dtype |-> dtype, fill_value |-> fill,
                                       shape |-> shape, chunks |-> chunks]]
    /\ BaseIdle
    /\ pk = IdlePk /\ lk = IdleLk /\ np = IdleNp /\ gr = IdleGr

MetaParse ==
    /\ mp.pc = "idle"
    /\ LET r == ZarrV2Metadata_parse(mp.doc)
       IN  mp' = [mp EXCEPT !.pc = "done", !.ok = r.ok, !.err = r.err, !.out = r.out]
    /\ UNCHANGED <<array_vars, pk, lk, np, gr>>

NextMeta == MetaParse

SpecMeta == InitMeta /\ [][NextMeta]_vars

(***************************************************************************)
(* Key harness: list_keys on shapes and chunks of equal length, chunk      *)
(* extents of at least 1, grids of up to eleven chunks a dimension.        *)
(***************************************************************************)
KeyExtents == {0, 1, 3, 4, 6, 11}

KeyChunks == {1, 2, 3}

InitKeys ==
    /\ \E r \in 0..MaxRank :
          \E shape \in [1..r -> KeyExtents], chunks \in [1..r -> KeyChunks] :
              lk = [IdleLk EXCEPT !.shape = shape, !.chunks = chunks]
    /\ BaseIdle
    /\ pk = IdlePk /\ mp = IdleMp /\ np = IdleNp /\ gr = IdleGr

ListKeys ==
    /\ lk.pc = "idle"
    /\ lk' = [lk EXCEPT !.pc = "done", !.out = list_keys(lk.shape, lk.chunks)]
    /\ UNCHANGED <<array_vars, pk, mp, np, gr>>

NextKeys == ListKeys

SpecKeys == InitKeys /\ [][NextKeys]_vars

(***************************************************************************)
(* Dtype harness: parse_numpy_dtype on strings of every byte-order         *)
(* character, type code and size text, well-formed or not.                 *)
(***************************************************************************)
OrderChars == {"<", ">", "|", "="}

TypeCodes == {"b", "i", "u", "f", "c", "M", "m", "S", "U", "V", "x"}

SizeTexts ==
    {<<>>, <<"0">>, <<"1">>, <<"2">>, <<"3">>, <<"4">>, <<"8">>, <<"1", "6">>, <<"+", "8">>,
     <<"4", "x">>, <<"8", "[", "n", "s", "]">>, <<"8", "[", "n", "s">>, <<"[", "n", "s", "]">>,
     <<"0", "[", "s", "]">>}

DtypeStrings ==
    {<<>>, <<"<">>} \cup {<<o, t>> \o size : o \in OrderChars, t \in TypeCodes, size \in SizeTexts}

InitDtype ==
    /\ \E str \in DtypeStrings : np = [IdleNp EXCEPT !.s = str]
    /\ BaseIdle
    /\ pk = IdlePk /\ mp = IdleMp /\ lk = IdleLk /\ gr = IdleGr

ParseDtype ==
    /\ np.pc = "idle"
    /\ np' = [np EXCEPT !.pc = "done", !.ret = parse_numpy_dtype(np.s)]
    /\ UNCHANGED <<array_vars, pk, mp, lk, gr>>

NextDtype == ParseDtype

SpecDtype == InitDtype /\ [][NextDtype]_vars

(***************************************************************************)
(* Group harness: open_group on a store with or without .zmetadata.        *)
(***************************************************************************)
MaxNames == 2       \* number of requested array names
MaxEntries == 2     \* entries of the consolidated metadata map

group_path == <<"g">>

ArrayNames == {<<"a">>, <<"b">>}

EntryKeys ==
    {<<"a", "/", ".", "z", "a", "r", "r", "a", "y">>, <<"b", "/", ".", "z", "a", "r", "r", "a", "y">>,
     <<"/", "a", "/", ".", "z", "a", "r", "r", "a", "y">>, <<"a", ".", "z", "a", "r", "r", "a", "y">>,
     <<".", "z", "a", "r", "r", "a", "y">>, <<"a", "/", ".", "z", "a", "t", "t", "r", "s">>,
     <<".", "z", "g", "r", "o", "u", "p">>, <<"b">>,
     <<"a", ".", "z", "a", "r", "r", "a", "y", "/", ".", "z", "a", "r", "r", "a", "y">>}

ValidDoc == [dtype |-> JStr(<<"<", "i", "2">>), fill_value |-> JInt(0), shape |-> <<3>>,
             chunks |-> <<2>>]

ValidEntry == Entry("object", TRUE, ValidDoc)

EntryValues ==
    {ValidEntry,
     Entry("object", TRUE, [ValidDoc EXCEPT !.dtype = JStr(<<"<", "i", "3">>)]),
     Entry("object", TRUE, [ValidDoc EXCEPT !.chunks = <<0>>]),
     Entry("other", FALSE, IdleDoc)}

\* the metadata map in the order its entries are iterated
MetadataMaps ==
    UNION {{m \in [1..n -> [key : EntryKeys, value : EntryValues]] :
               \A i, j \in 1..n : i # j => m[i].key # m[j].key} : n \in 0..MaxEntries}

TwoArrays == <<[key |-> <<"a", "/", ".", "z", "a", "r", "r", "a", "y">>, value |-> ValidEntry],
               [key |-> <<"b", "/", ".", "z", "a", "r", "r", "a", "y">>, value |-> ValidEntry]>>

Formats ==
    {JMissing, JNull, JInt(0), JInt(1), JInt(2), JInt(-1), JFloat, JStr(<<"2">>),
     J("int_2p32", <<>>, 1)}

ConsolidatedDoc(kind, format, mkind, entries) ==
    [kind |-> kind, format |-> format, metadata |-> [kind |-> mkind, entries |-> entries]]

ConsolidatedDocs ==
    {ConsolidatedDoc("invalid", JMissing, "missing", <<>>),
     ConsolidatedDoc("other", JMissing, "missing", <<>>)}
        \cup {ConsolidatedDoc("object", f, k, <<>>) : f \in Formats, k \in {"missing", "other"}}
        \cup {ConsolidatedDoc("object", f, "object", m) : f \in Formats, m \in {<<>>, TwoArrays}}
        \cup {ConsolidatedDoc("object", JInt(1), "object", m) : m \in MetadataMaps}

\* what the store holds under <path>/<name>/.zarray
ArrayBlob(status) ==
    CASE status = "valid" -> Ok(SomeB(ValidEntry))
      [] status = "invalid" -> Ok(SomeB(Entry("object", TRUE, [ValidDoc EXCEPT !.shape = <<-1>>])))
      [] status = "panic" -> Ok(SomeB(Entry("object", TRUE, [ValidDoc EXCEPT !.chunks = <<0>>])))
      [] status = "absent" -> Ok(None)
      [] OTHER -> Err("Storage")

ZarrayPath(name) == store_join(store_join(group_path, name), DotZarray)

ZmetadataPath == store_join(group_path, DotZmetadata)

GroupStores ==
    {[path \in {ZmetadataPath} |-> Ok(SomeB(doc))] : doc \in ConsolidatedDocs}
        \cup {[path \in {ZmetadataPath} \cup {ZarrayPath(name) : name \in ArrayNames} |->
                  IF path = ZmetadataPath THEN z
                  ELSE ArrayBlob(st[CHOOSE name \in ArrayNames : ZarrayPath(name) = path])] :
              z \in {Ok(None), Err("Storage")},
              st \in [ArrayNames -> {"valid", "invalid", "panic", "absent", "error"}]}

InitGroup ==
    /\ store \in GroupStores
    /\ \E names \in UNION {[1..n -> ArrayNames] : n \in 0..MaxNames} :
          gr = [IdleGr EXCEPT !.path = group_path, !.names = names]
    /\ md = DefaultMd /\ reads = {} /\ ld = IdleLoad /\ calls = [slot \in 1..2 |-> IdleCall]
    /\ ix = IdleIx /\ cp = IdleCp
    /\ pk = IdlePk /\ mp = IdleMp /\ lk = IdleLk /\ np = IdleNp

group_unchanged == <<md, store, reads, ld, calls, ix, cp, pk, mp, lk, np>>

\* the Some(bytes) arm of open_group, run to its return
GroupConsolidated(consolidated) ==
    \E names \in PermsOf(DOMAIN consolidated.metadata) :
        gr' = [gr EXCEPT !.pc = "done",
                         !.ret = open_group_consolidated(gr.path, consolidated, names)]

\* open_group from the answer of store.get(&zmetadata_path) on: the None arm
\* spawns one task per name
GroupMatch(got) ==
    IF ~got.ok THEN gr' = [gr EXCEPT !.pc = "done", !.ret = GroupErr(got.err)]
    ELSE IF got.val.some THEN GroupConsolidated(ZarrConsolidatedMetadata_parse(got.val.val))
    ELSE gr' = [gr EXCEPT !.pc = "joining", !.next = 1,
                          !.tasks = [i \in 1..Len(gr.names) |-> PendingTask]]

GroupStart ==
    /\ gr.pc = "idle"
    /\ GroupMatch(store_get(store_join(gr.path, DotZmetadata)))
    /\ UNCHANGED group_unchanged

\* task i has run to r
GroupTaskDone(i, r) ==
    gr' = [gr EXCEPT !.tasks[i] = [st |-> "done", res |-> r],
                     !.first_failed = IF ~r.ok /\ gr.first_failed = 0 THEN i
                                      ELSE gr.first_failed]

\* the task of name i: open(store, &array_path) (tasks complete in any order)
GroupTaskRun(i) ==
    /\ gr.pc = "joining"
    /\ i \in 1..Len(gr.tasks)
    /\ gr.tasks[i].st = "pending"
    /\ GroupTaskDone(i, open(store_join(gr.path, gr.names[i])))
    /\ UNCHANGED group_unchanged

\* one turn of `for handle in handles { match handle.await ... }`; a task that
\* panicked is joined as Err(JoinError)
GroupJoin ==
    /\ gr.pc = "joining"
    /\ gr.next <= Len(gr.tasks)
    /\ gr.tasks[gr.next].st = "done"
    /\ LET r == gr.tasks[gr.next].res
       IN  gr' = [gr EXCEPT !.next = gr.next + 1,
                            !.tasks[gr.next].st = "joined",
                            !.arrays = IF r.ok THEN Insert(gr.arrays, gr.names[gr.next], r.val)
                                       ELSE gr.arrays,
                            !.errors = IF r.ok THEN gr.errors
                                       ELSE IF r.err = "panic" THEN Append(gr.errors, "Other")
                                       ELSE Append(gr.errors, r.err)]
    /\ UNCHANGED group_unchanged

GroupFinish ==
    /\ gr.pc = "joining"
    /\ gr.next = Len(gr.tasks) + 1
    /\ gr' = [gr EXCEPT !.pc = "done",
                        !.ret = open_group_return(gr.path, gr.names, gr.arrays, gr.errors)]
    /\ UNCHANGED group_unchanged

NextGroup ==
    \/ GroupStart
    \/ \E i \in 1..(MaxNames + 1) : GroupTaskRun(i)
    \/ GroupJoin
    \/ GroupFinish

SpecGroup == InitGroup /\ [][NextGroup]_vars

(***************************************************************************)
(* parse_chunk harness: parse_chunk on codec lists with any number of      *)
(* Bytes codecs, with and without an endian (BytesCodec.endian is an       *)
(* Option: parse_codec leaves it None when the configuration has none).    *)
(***************************************************************************)
ParseCodecKinds ==
    {Codec("Bytes", "None"), Codec("Bytes", "Little"), Codec("Bytes", "Big"),
     Codec("Bytes", "NotApplicable"), Codec("Gzip", "None")}

ParseCodecLists == UNION {[1..n -> ParseCodecKinds] : n \in 0..MaxCodecs}

\* two elements of a two- or four-byte dtype, no byte sequence a palindrome
ParseRaw(dtype) == IF dtype = "Int16" THEN <<1, 2, 3, 4>> ELSE <<1, 0, 192, 63, 2, 0, 192, 63>>

InitParse ==
    /\ \E codecs \in ParseCodecLists, dtype \in {"Int16", "Float32"} :
          pk = [IdlePk EXCEPT !.codecs = codecs, !.dtype = dtype,
                              !.data = EncodeAll(codecs, ParseRaw(dtype))]
    /\ BaseIdle
    /\ mp = IdleMp /\ lk = IdleLk /\ np = IdleNp /\ gr = IdleGr

ParseChunk ==
    /\ pk.pc = "idle"
    /\ pk' = [pk EXCEPT !.pc = "done",
                        !.ret = parse_chunk(SomeB(pk.data), pk.dtype, <<2>>,
                                            Sentinel("NaN"), pk.codecs).res]
    /\ UNCHANGED <<array_vars, mp, lk, np, gr>>

NextParse == ParseChunk

SpecParse == InitParse /\ [][NextParse]_vars

(***************************************************************************)
(* Properties.                                                             *)
(***************************************************************************)
AtMostOneLongAxis(shape) == Cardinality({d \in 1..Len(shape) : shape[d] > 1}) <= 1

FlatIndexSet(shape, order) ==
    {linear_index(shape, order, cartesian_indices(shape)[k]) :
        k \in 1..Len(cartesian_indices(shape))}

\* C3 as stated: for every shape and for both orders, linear_index of the k-th
\* tuple of cartesian_indices(shape) is k.
C3_EnumerationIsFlattening == ix.pc = "done" => ix.out = ix.k

\* C3 as amended: linear_index of the k-th tuple of cartesian_indices(shape) is k
\* for order C; for order F it is k when at most one extent of the shape exceeds
\* 1, and for every shape the tuples map one-to-one onto [0, product(shape)).
C3_EnumerationIsFlatteningInC ==
    ix.pc = "done" =>
        /\ ix.order = "C" => ix.out = ix.k
        /\ ix.order = "F" /\ AtMostOneLongAxis(ix.shape) => ix.out = ix.k
        /\ FlatIndexSet(ix.shape, ix.order) = 0..(Product(ix.shape) - 1)
        /\ Len(cartesian_indices(ix.shape)) = Product(ix.shape)

C3_Witness ==
    /\ ix.pc = "done"
    /\ ix.order = "C"
    /\ Len(ix.shape) = 2
    /\ ix.shape[1] > 1
    /\ ix.shape[2] > 1
    /\ ix.k = Product(ix.shape) - 1
    /\ ix.out = ix.k

\* fold(reverse(codecs), raw, decode), a failed decode ending the fold
RECURSIVE FoldDecode(_, _)
FoldDecode(cs, acc) ==
    IF cs = <<>> THEN Ok(acc)
    ELSE LET r == decode(Head(cs), acc)
         IN  IF r.ok THEN FoldDecode(Tail(cs), r.val) ELSE Err(r.err)

IsPrefix(a, b) == Len(a) <= Len(b) /\ SubSeq(b, 1, Len(a)) = a

\* C10: apply_codec_pipeline(codecs, raw) is the left fold of decode over the
\* reversed codec list: the last codec of the list decodes the raw blob first,
\* each earlier codec decodes the output of the one after it, and the codec at
\* the first list index produces the final bytes.
C10_PipelineIsReversedFold ==
    cp.pc = "done" =>
        /\ cp.ret = FoldDecode(Reverse(cp.codecs), cp.raw)
        /\ IsPrefix(cp.st.ran, [j \in 1..Len(cp.codecs) |-> Len(cp.codecs) + 1 - j])
        /\ cp.ret.ok => Len(cp.st.ran) = Len(cp.codecs)

C10_Witness ==
    /\ cp.pc = "done"
    /\ cp.ret.ok
    /\ cp.ret.val = <<7, 8>>
    /\ Len(cp.codecs) = 3
    /\ cp.codecs[1].id = "Gzip"
    /\ cp.codecs[2].id = "Zlib"
    /\ cp.codecs[3].id = "Lz4"

\* the chunk key of a global index, and its row-major index within that chunk
KeyOf(g) == KeyStr([d \in 1..Len(g) |-> g[d] \div md.chunks[d]])

LocalOf(g) == linear_index(md.chunks, "C", [d \in 1..Len(g) |-> g[d] % md.chunks[d]])

GlobalIndices == Range(cartesian_indices(md.shape))

\* what the store holds for the chunk of a key string
Stored(key) == store_get(store_join(base_path, key))

IsAbsent(key) == Stored(key).ok /\ (~Stored(key).val.some \/ Stored(key).val.val = <<>>)

IsSentinel(fv) == fv.kind \in {"NaN", "Infinity", "NegativeInfinity"}

NaN == F64("nan", 0)

\* the values C1 allows at a position of an absent chunk
AbsentValues ==
    {fill_to_f64(md.fill_value)}
        \cup (IF IsSentinel(md.fill_value) /\ IsFloat(md.dtype.data_type) THEN {NaN} ELSE {})

\* C1: after load() succeeds, every flat position of a chunk absent from the store
\* (no blob, or an empty blob) holds fill_value.to_f64(), NaN for the sentinels on
\* a float dtype.
C1_AbsentChunksReadFillValue ==
    ld.pc = "done" /\ ld.kind = "f64" /\ ld.ret.ok =>
        \A g \in GlobalIndices :
            IsAbsent(KeyOf(g)) =>
                ld.ret.val[linear_index(md.shape, md.order, g) + 1] \in AbsentValues

DeclaredEndian == IF md.dtype.byte_order = "Big" THEN "Big" ELSE "Little"

\* the elements of a blob, reinterpreted in the declared endian and dtype
DecodedElements(blob) ==
    to_f64_vec(bytes_to_zarr_vector(DeclaredEndian, md.dtype.data_type, blob).val).val

OneRawChunk ==
    /\ Len(md.keys) = 1
    /\ md.chunks = md.shape
    /\ ~md.compressor.some
    /\ md.dtype.data_type # "String"
    /\ Stored(md.keys[1]).ok
    /\ Stored(md.keys[1]).val.some
    /\ Len(Stored(md.keys[1]).val.val) = Product(md.shape) * byte_size(md.dtype.data_type)

\* C2: for an array of one chunk as large as the shape and no compressor, in order
\* C and in order F alike, load() is the blob's elements in the blob's order.
C2_SingleChunkIsRawBytes ==
    ld.pc = "done" /\ ld.kind = "f64" /\ OneRawChunk =>
        /\ ld.ret.ok
        /\ ld.ret.val = DecodedElements(Stored(md.keys[1]).val.val)

AllTasksSucceeded == ld.pc = "done" /\ ld.errors = <<>>

ChunkF64(key) == to_f64_vec(ld.chunk_map[key]).val

\* C4 as stated: when every chunk task succeeds, load() returns product(shape)
\* elements, the one at linear_index(shape, order, g) being the element of chunk
\* g div chunks at the row-major local index of g mod chunks.
C4_MergePlacesEveryElement ==
    AllTasksSucceeded /\ ld.kind = "f64" =>
        /\ ld.ret.ok
        /\ Len(ld.ret.val) = Product(md.shape)
        /\ \A g \in GlobalIndices :
              /\ LocalOf(g) < Len(ChunkF64(KeyOf(g)))
              /\ ld.ret.val[linear_index(md.shape, md.order, g) + 1]
                    = ChunkF64(KeyOf(g))[LocalOf(g) + 1]

\* C4 as amended: when every chunk task succeeds and the dtype is numeric, load()
\* returns product(shape) elements; the one at linear_index(shape, order, g) is the
\* element of chunk g div chunks at the row-major local index of g mod chunks when
\* the chunk holds that many elements, and fill_value.to_f64() otherwise; elements
\* of edge chunks outside the shape are written nowhere and raise no error.  With
\* a String dtype the tasks succeed (absent chunks) and load() fails with
\* TypeConversion.
C4_MergePlacesDecodedElements ==
    AllTasksSucceeded /\ ld.kind = "f64" =>
        IF md.dtype.data_type = "String" THEN ld.ret = Err("TypeConversion")
        ELSE /\ ld.ret.ok
             /\ Len(ld.ret.val) = Product(md.shape)
             /\ \A g \in GlobalIndices :
                   ld.ret.val[linear_index(md.shape, md.order, g) + 1]
                      = IF LocalOf(g) < Len(ChunkF64(KeyOf(g)))
                        THEN ChunkF64(KeyOf(g))[LocalOf(g) + 1]
                        ELSE fill_to_f64(md.fill_value)

\* shape = [3], chunks = [2], chunks [1, 2] and [3, 4]: load() = [1, 2, 3]
C4_Witness ==
    /\ AllTasksSucceeded
    /\ ld.kind = "f64"
    /\ md.shape = <<3>>
    /\ md.chunks = <<2>>
    /\ ChunkF64("0") = <<F64("num", 1), F64("num", 2)>>
    /\ ChunkF64("1") = <<F64("num", 3), F64("num", 4)>>
    /\ ld.ret = Ok(<<F64("num", 1), F64("num", 2), F64("num", 3)>>)

FailedTasks == {i \in 1..Len(ld.tasks) : ld.tasks[i].st # "pending" /\ ~ld.tasks[i].res.ok}

AllAwaited == \A i \in 1..Len(ld.tasks) : ld.tasks[i].st = "joined"

\* C5 as stated: when a chunk task fails, load() / load_value() returns an error,
\* after every task has been awaited, and the error is that of the task that
\* failed first in completion order.
C5_FirstErrorInCompletionOrder ==
    ld.pc = "done" /\ FailedTasks # {} =>
        /\ AllAwaited
        /\ ld.ret = Err(ld.tasks[ld.first_failed].res.err)

\* C5 as amended: when a chunk task fails, load() / load_value() returns an error
\* and no buffer, after every task has been awaited, and the error is that of the
\* failed task that comes first in the order of metadata.keys (the order the
\* handles are joined in), whichever task completed first.
C5_FirstErrorInJoinOrder ==
    ld.pc = "done" /\ FailedTasks # {} =>
        /\ AllAwaited
        /\ ~ld.ret.ok
        /\ ld.ret.val = <<>>
        /\ \E i \in FailedTasks :
              /\ \A j \in FailedTasks : i <= j
              /\ ld.ret.err = ld.tasks[i].res.err

\* two tasks fail with different errors, the second completing first
C5_Witness ==
    /\ ld.pc = "done"
    /\ FailedTasks = {1, 2}
    /\ ld.first_failed = 2
    /\ ld.tasks[1].res.err # ld.tasks[2].res.err
    /\ ld.ret = Err(ld.tasks[1].res.err)

Returned(slot) == calls[slot].pc = "done"

\* the dtype-typed fill scalar: the fill value's own scalar, the dtype's zero for
\* a sentinel
FillScalar == IF md.fill_value.kind = "Value" THEN md.fill_value.val ELSE ZV(md.dtype.data_type, 0)

C7_WrongRankKeyIsOther ==
    \A slot \in DOMAIN calls :
        Returned(slot) /\ Len(calls[slot].key) # Len(md.shape) =>
            /\ calls[slot].res = Err("Other")
            /\ ~calls[slot].read
            /\ calls[slot].path = <<>>
            /\ KeyStr(calls[slot].key) \notin Range(md.keys)

C7_Witness ==
    /\ Returned(1)
    /\ Len(md.shape) = 2
    /\ Len(calls[1].key) = 1
    /\ calls[1].res = Err("Other")
    /\ reads = {}

\* C8: get_chunk with a key of the right length that is not in metadata.keys fails
\* with NotFound without reading the store, also when the store holds a blob
\* under the key's path.
C8_OutsideKeyIsNotFound ==
    \A slot \in DOMAIN calls :
        Returned(slot) /\ Len(calls[slot].key) = Len(md.shape)
                       /\ KeyStr(calls[slot].key) \notin Range(md.keys) =>
            /\ calls[slot].res = Err("NotFound")
            /\ ~calls[slot].read
            /\ calls[slot].path = <<>>

C8_Witness ==
    /\ Returned(1)
    /\ calls[1].key = OutsideKey(md)
    /\ Stored(KeyStr(calls[1].key)).ok
    /\ Stored(KeyStr(calls[1].key)).val.some
    /\ Stored(KeyStr(calls[1].key)).val.val # <<>>
    /\ calls[1].res = Err("NotFound")
    /\ reads = {}

BytesCodecs(codecs) == SelectSeq(codecs, LAMBDA c : c.id = "Bytes")

HintedCodecs(codecs) == SelectSeq(codecs, LAMBDA c : c.id = "Bytes" /\ c.endian # "None")

\* the elements of ParseRaw(dtype) read in an endian
ReadAs(dtype, endian) ==
    IF dtype = "Int16"
    THEN (IF endian = "Big" THEN <<258, 772>> ELSE <<513, 1027>>)
    ELSE (IF endian = "Big" THEN <<16777216 + 49215, 33554432 + 49215>>
          ELSE <<1069547521, 1069547522>>)

\* C11 as stated: the endian parse_chunk reads with is that of the first Bytes
\* codec of the list, and little-endian when the list has no Bytes codec.
C11_EndianOfFirstBytesCodec ==
    pk.pc = "done" =>
        pk.ret = Ok(Vec(pk.dtype,
                        ReadAs(pk.dtype,
                               IF BytesCodecs(pk.codecs) = <<>> THEN "Little"
                               ELSE IF Head(BytesCodecs(pk.codecs)).endian = "None" THEN "Little"
                               ELSE Head(BytesCodecs(pk.codecs)).endian)))

\* C11 as amended: the endian parse_chunk reads with is that of the first Bytes
\* codec, in list order, that carries an endian (not the last one, not the one
\* that ran first); it is little-endian when no Bytes codec carries one, and a
\* NotApplicable endian reads as little-endian.
C11_EndianOfFirstHintedBytesCodec ==
    pk.pc = "done" =>
        pk.ret = Ok(Vec(pk.dtype,
                        ReadAs(pk.dtype,
                               IF HintedCodecs(pk.codecs) = <<>> THEN "Little"
                               ELSE Head(HintedCodecs(pk.codecs)).endian)))

\* [Bytes(Big), Bytes(Little)]: the pipeline ran Bytes(Little) first, the read is big-endian
C11_Witness ==
    /\ pk.pc = "done"
    /\ pk.codecs = <<Codec("Bytes", "Big"), Codec("Gzip", "None"), Codec("Bytes", "Little")>>
    /\ pk.dtype = "Int16"
    /\ pk.ret = Ok(Vec("Int16", <<258, 772>>))

IsFull(key) ==
    \E i \in 1..Len(md.keys) : md.keys[i] = key /\ Stored(key) = Blob(md, i - 1, "full")

RawOf(key) ==
    RawChunk(md, (CHOOSE i \in 1..Len(md.keys) : md.keys[i] = key) - 1, Product(md.chunks))

\* C12: the codec list of a v2 array is the compressor's codecs followed by one
\* Bytes codec, the list's last element and its only Bytes codec, carrying the
\* dtype's byte order; a chunk of a '>' dtype is read big-endian, a chunk of a
\* '<' or '|' dtype little-endian.
C12_CodecListEndsWithBytesOfDtype ==
    LET codecs == get_codec_equivalents(md)
        n == Len(codecs)
    IN  /\ n >= 1
        /\ codecs[n] = Codec("Bytes", md.dtype.byte_order)
        /\ \A j \in 1..(n - 1) : codecs[j].id # "Bytes"
        /\ SubSeq(codecs, 1, n - 1) =
              (IF md.compressor.some THEN compressor_to_codecs(md.compressor) ELSE <<>>)
        /\ \A slot \in DOMAIN calls :
              Returned(slot) /\ calls[slot].key \in ValidKeys
                             /\ IsFull(KeyStr(calls[slot].key)) =>
                  calls[slot].res =
                      bytes_to_zarr_vector(DeclaredEndian, md.dtype.data_type,
                                           RawOf(KeyStr(calls[slot].key)))

\* a gzip-compressed chunk of a '>i2' array: bytes 01 00 02 FF read as 256, 767
C12_Witness ==
    /\ Returned(1)
    /\ md.dtype = [data_type |-> "Int16", byte_order |-> "Big"]
    /\ get_codec_equivalents(md) = <<Codec("Gzip", "None"), Codec("Bytes", "Big")>>
    /\ calls[1].key = <<0>>
    /\ IsFull(KeyStr(calls[1].key))
    /\ calls[1].ran = <<2, 1>>
    /\ calls[1].res = Ok(Vec("Int16", <<256, 767>>))

Accepted == mp.pc = "done" /\ mp.ok

\* C13: in metadata that ZarrV2Metadata::parse accepts the fill value agrees with
\* the dtype: a Value of the dtype's own type, or a NaN / Infinity / -Infinity
\* sentinel on a float or complex dtype, never a sentinel on another dtype.
C13_FillValueAgreesWithDtype ==
    Accepted =>
        \/ /\ mp.out.fill_value.kind = "Value"
           /\ mp.out.fill_value.val.dt = mp.out.dtype.data_type
        \/ /\ IsSentinel(mp.out.fill_value)
           /\ mp.out.dtype.data_type \in FloatTypes

\* C14: in metadata that ZarrV2Metadata::parse returns, shape and chunks have the
\* same number of dimensions and every chunk extent is at least 1.
C14_ShapeAndChunksAgree ==
    Accepted =>
        /\ Len(mp.out.shape) = Len(mp.out.chunks)
        /\ \A d \in 1..Len(mp.out.chunks) : mp.out.chunks[d] >= 1

\* ceil(a / b) for b >= 1
CeilDiv(a, b) == CHOOSE n \in 0..a : n * b >= a /\ (n = 0 \/ (n - 1) * b < a)

Grid(shape, chunks) == [d \in 1..Len(shape) |-> CeilDiv(shape[d], chunks[d])]

\* a comes before b in lexicographic order
LexLess(a, b) ==
    \E d \in 1..Len(a) : a[d] < b[d] /\ \A e \in 1..(d - 1) : a[e] = b[e]

\* the decimal digits of n, most significant first
DecimalOf(n) ==
    IF n < 10 THEN <<Digits[n + 1]>> ELSE <<Digits[(n \div 10) + 1], Digits[(n % 10) + 1]>>

\* the characters of a key cut at its dots into the numbers between them
KeyCoords(key) == parse_key_string(key)

\* C15: list_keys(shape, chunks) has product(ceil(shape[i] / chunks[i])) keys,
\* pairwise distinct, one for each coordinate of the chunk grid, each the
\* coordinate's decimal indices joined by '.', in lexicographic order of the
\* coordinates.
C15_ListKeysEnumeratesGrid ==
    lk.pc = "done" =>
        LET grid == Grid(lk.shape, lk.chunks)
            r == Len(lk.shape)
        IN  /\ Len(lk.out) = Product(grid)
            /\ \A p, q \in 1..Len(lk.out) : p # q => lk.out[p] # lk.out[q]
            /\ \A p \in 1..Len(lk.out) :
                  /\ Len(KeyCoords(lk.out[p])) = r
                  /\ \A d \in 1..r : KeyCoords(lk.out[p])[d] < grid[d]
                  /\ lk.out[p] =
                        JoinStr([d \in 1..r |-> DecimalOf(KeyCoords(lk.out[p])[d])], ".")
            /\ \A p \in 1..(Len(lk.out) - 1) :
                  LexLess(KeyCoords(lk.out[p]), KeyCoords(lk.out[p + 1]))

\* list_keys([4, 6], [2, 3]) = ["0.0", "0.1", "1.0", "1.1"]
C15_Witness ==
    /\ lk.pc = "done"
    /\ lk.shape = <<4, 6>>
    /\ lk.chunks = <<2, 3>>
    /\ lk.out = << <<"0", ".", "0">>, <<"0", ".", "1">>, <<"1", ".", "0">>, <<"1", ".", "1">> >>

\* the table of the claim: <<type code, byte size, dtype>>
SizedTable ==
    {<<"b", 1, "Bool">>,
     <<"i", 1, "Int8">>, <<"i", 2, "Int16">>, <<"i", 4, "Int32">>, <<"i", 8, "Int64">>,
     <<"u", 1, "UInt8">>, <<"u", 2, "UInt16">>, <<"u", 4, "UInt32">>, <<"u", 8, "UInt64">>,
     <<"f", 2, "Float16">>, <<"f", 4, "Float32">>, <<"f", 8, "Float64">>,
     <<"c", 8, "Complex64">>, <<"c", 16, "Complex128">>}

AnySizeTable == {<<"S", "String">>, <<"U", "String">>, <<"V", "Bytes">>,
                 <<"M", "Int64">>, <<"m", "Int64">>}

\* the dtypes the table gives a (type code, byte size) pair: one or none
TableDtypes(code, size) ==
    {e[3] : e \in {x \in SizedTable : x[1] = code /\ x[2] = size}}
        \cup {e[2] : e \in {x \in AnySizeTable : x[1] = code}}

OrderTable == {<<"<", "Little">>, <<">", "Big">>, <<"|", "NotApplicable">>}

AllDigits(str) == str # <<>> /\ \A i \in 1..Len(str) : IsDigit(str[i])

\* the size text of a dtype string: its digits, up to the unit of an M / m dtype
SizeText(str) ==
    LET rest == SubSeq(str, 3, Len(str))
    IN  IF str[2] \in {"M", "m"} /\ "[" \in Range(rest) /\ rest[Len(rest)] = "]"
        THEN SubSeq(rest, 1, Find(rest, "["))
        ELSE rest

\* C16 as stated, on the strings whose size text is a plain decimal number:
\* parse_numpy_dtype follows the table (S*, U*, V*, M*, m* for every size), the
\* byte order follows '<', '>', '|', and every other pair, every other byte-order
\* character and every string shorter than 3 characters fails.
C16_DtypeTable ==
    np.pc = "done" =>
        IF Len(np.s) < 3 THEN ~np.ret.ok
        ELSE AllDigits(SizeText(np.s)) =>
                LET dts == TableDtypes(np.s[2], ParseDigits(SizeText(np.s)))
                    orders == {e[2] : e \in {x \in OrderTable : x[1] = np.s[1]}}
                IN  IF dts = {} \/ orders = {} THEN ~np.ret.ok
                    ELSE /\ np.ret.ok
                         /\ np.ret.val.data_type \in dts
                         /\ np.ret.val.byte_order \in orders

\* C16 as amended: as stated for every byte size of at least 1; a byte size of 0
\* fails for every type code, S, U, V, M and m included.  (The size is read as
\* Rust reads a usize, a leading '+' allowed; an M / m unit needs its closing
\* bracket and is kept as the time unit; any other size text fails.)
C16_DtypeTableFromSizeOne ==
    np.pc = "done" =>
        IF Len(np.s) < 3 THEN ~np.ret.ok
        ELSE LET text == SizeText(np.s)
                 digits == IF text # <<>> /\ text[1] = "+" THEN Tail(text) ELSE text
                 dts == IF AllDigits(digits) /\ ParseDigits(digits) >= 1
                        THEN TableDtypes(np.s[2], ParseDigits(digits)) ELSE {}
                 orders == {e[2] : e \in {x \in OrderTable : x[1] = np.s[1]}}
             IN  IF dts = {} \/ orders = {} THEN ~np.ret.ok
                 ELSE /\ np.ret.ok
                      /\ np.ret.val.data_type \in dts
                      /\ np.ret.val.byte_order \in orders
                      /\ np.ret.val.time_unit.some <=> "[" \in Range(np.s)

C16_Witness ==
    /\ np.pc = "done"
    /\ np.s = <<">", "c", "1", "6">>
    /\ np.ret.ok
    /\ np.ret.val = V2DataType("Complex128", "Big", NoUnit)

\* open_group has returned from the arm of a present .zmetadata
ConsolidatedRun ==
    /\ gr.pc = "done"
    /\ store_get(ZmetadataPath).ok
    /\ store_get(ZmetadataPath).val.some

Descriptor == store_get(ZmetadataPath).val.val

\* the keys the claim sets aside
SetAside(key) ==
    \/ Len(key) >= 2 /\ key[1] = "." /\ key[2] = "z"
    \/ \E n \in 1..Len(key) : SubSeq(key, n, Len(key)) \in {DotZattrs, DotZgroup}

\* the key without its '.zarray' (or '/.zarray') suffix and without a leading '/'
NameOfKey(key) ==
    LET cut == IF EndsWith(key, SlashDotZarray) THEN Len(SlashDotZarray) ELSE Len(DotZarray)
        stem == SubSeq(key, 1, Len(key) - cut)
    IN  IF stem # <<>> /\ Head(stem) = "/" THEN Tail(stem) ELSE stem

\* C17: each entry of the metadata map whose key ends in '.zarray' and whose
\* value is valid v2 array metadata gives an array named by the key with that
\* suffix and the leading '/' stripped; entries whose key starts with '.z' or ends
\* in '.zattrs' / '.zgroup' give no array (the result is the same without
\* them); metadata {"a/.zarray", "b/.zarray"} gives arrays named exactly "a" and
\* "b".
C17_ZarrayEntriesNameTheArrays ==
    ConsolidatedRun /\ gr.ret.ok =>
        LET entries == Descriptor.metadata.entries
            kept == SelectSeq(entries, LAMBDA e : ~SetAside(e.key))
            without == [Descriptor EXCEPT !.metadata.entries = kept]
            names == DOMAIN gr.ret.group.arrays
        IN  /\ \A i \in 1..Len(entries) :
                  /\ EndsWith(entries[i].key, DotZarray)
                  /\ ~SetAside(entries[i].key)
                  /\ parse_entry(entries[i].value).ok
                  => NameOfKey(entries[i].key) \in names
            /\ names = DOMAIN ZarrConsolidatedMetadata_parse(without).metadata
            /\ Range(entries) = Range(TwoArrays) => names = {<<"a">>, <<"b">>}

\* C18: when .zmetadata is present and its consolidated format version is a
\* number other than 1, open_group returns an error, no group and no array.
C18_FormatOtherThanOneFails ==
    /\ ConsolidatedRun
    /\ Descriptor.kind = "object"
    /\ Descriptor.format.kind \in {"int", "int_2p32", "float"}
    /\ Descriptor.format # JInt(1)
    => /\ ~gr.ret.ok
       /\ gr.ret.group = NoGroup

\* open_group has returned from the arm of an absent .zmetadata
IndividualRun == gr.pc = "done" /\ store_get(ZmetadataPath) = Ok(None)

FailedOpens == {i \in 1..Len(gr.tasks) : ~gr.tasks[i].res.ok}

\* C19: without .zmetadata, open_group opens every requested name under
\* <path>/<name>, the opens completing in any order; if an open fails it returns
\* the error of the first failed open in the order the handles are awaited (a
\* panicked open counting as an error of kind Other) and no group; if all
\* succeed it returns a group with consolidated = false, array_names the
\* requested names and, for every requested name, the array opened under
\* <path>/<name>.
C19_IndividualOpensAllOrNothing ==
    IndividualRun =>
        /\ Len(gr.tasks) = Len(gr.names)
        /\ \A i \in 1..Len(gr.names) :
              /\ gr.tasks[i].st = "joined"
              /\ gr.tasks[i].res.ok <=>
                     store_get(ZarrayPath(gr.names[i])) = ArrayBlob("valid")
        /\ FailedOpens # {} =>
              /\ ~gr.ret.ok
              /\ gr.ret.group = NoGroup
              /\ \E i \in FailedOpens :
                    /\ \A j \in FailedOpens : i <= j
                    /\ gr.ret.err = IF gr.tasks[i].res.err = "panic" THEN "Other"
                                    ELSE gr.tasks[i].res.err
        /\ FailedOpens = {} =>
              /\ gr.ret.ok
              /\ ~gr.ret.group.consolidated
              /\ gr.ret.group.array_names = gr.names
              /\ DOMAIN gr.ret.group.arrays = Range(gr.names)
              /\ \A name \in Range(gr.names) :
                    /\ gr.ret.group.arrays[name].path = group_path \o <<"/">> \o name
                    /\ gr.ret.group.arrays[name].metadata.shape = ValidDoc.shape

\* two opens fail with different errors, the second completing first
C19_Witness ==
    /\ IndividualRun
    /\ gr.names = <<<<"a">>, <<"b">>>>
    /\ gr.tasks[1].res.err = "NotFound"
    /\ gr.tasks[2].res.err = "Storage"
    /\ gr.first_failed = 2
    /\ gr.ret = GroupErr("NotFound")

\* both requested arrays open
C19_WitnessGroup ==
    /\ IndividualRun
    /\ gr.names = <<<<"b">>, <<"a">>>>
    /\ gr.ret.ok
    /\ DOMAIN gr.ret.group.arrays = {<<"a">>, <<"b">>}

C21_FreshChunkHasChunkLength ==
    \A slot \in DOMAIN calls :
        Returned(slot) /\ calls[slot].res.ok =>
            /\ calls[slot].res.val.dt = md.dtype.data_type
            /\ Len(calls[slot].res.val.elems) = Product(md.chunks)

\* the flat indices the merge loop writes for the chunk of a key
WrittenBy(key) ==
    {ZipDot(GlobalPos(lp, parse_key_string(key), md.chunks), strides(md.shape, md.order)) :
        lp \in {q \in Range(cartesian_indices(md.chunks)) :
                   InBounds(GlobalPos(q, parse_key_string(key), md.chunks), md.shape)}}

\* the rectangle [key * chunk_shape, (key + 1) * chunk_shape) within shape
Rectangle(key) ==
    {g \in GlobalIndices :
        \A d \in 1..Len(g) :
            /\ KeyCoords(key)[d] * md.chunks[d] <= g[d]
            /\ g[d] < (KeyCoords(key)[d] + 1) * md.chunks[d]}

\* the chunk map the tasks produce, from the store alone
ChunkMapOfStore ==
    [key \in Range(md.keys) |-> getter(parse_key_string(key)).res.val]

AllJoinedOk ==
    /\ ld.pc \in {"joining", "done"}
    /\ ld.next = Len(ld.tasks) + 1
    /\ ld.errors = <<>>

\* C22: the chunks of two distinct keys write disjoint sets of flat indices, each
\* the image of the chunk's rectangle within shape (checked before the load
\* starts: the metadata never changes); hence, once every task is joined without
\* error, load() merges to one and the same buffer in every order of processing
\* the chunk map, whatever order the tasks completed in.
C22_MergeIsOrderIndependent ==
    /\ ld.pc = "idle" =>
          LET written == [i \in 1..Len(md.keys) |-> WrittenBy(md.keys[i])]
          IN  \A i \in 1..Len(md.keys) :
                  /\ written[i]
                        = {linear_index(md.shape, md.order, g) : g \in Rectangle(md.keys[i])}
                  /\ \A j \in 1..Len(md.keys) : i # j => written[i] \cap written[j] = {}
    /\ AllJoinedOk /\ ld.kind = "f64" =>
          /\ ld.pc = "joining" =>
                \A iter \in PermsOf(Range(md.keys)) :
                    merge_chunks(ld.chunk_map, md, iter) = merge_chunks(ld.chunk_map, md, md.keys)
          /\ ld.pc = "done" =>
                /\ ld.chunk_map = ChunkMapOfStore
                /\ ld.ret = merge_chunks(ld.chunk_map, md, md.keys)

\* two chunks of different content in an F-order array, merged
C22_Witness ==
    /\ ld.pc = "done"
    /\ ld.kind = "f64"
    /\ ld.ret.ok
    /\ md.order = "F"
    /\ Len(md.shape) = 2
    /\ Len(md.keys) = 2
    /\ ld.chunk_map[md.keys[1]] # ld.chunk_map[md.keys[2]]
    /\ \E i, j \in 1..Len(ld.ret.val) : ld.ret.val[i] # ld.ret.val[j]

\* C23: when several chunk tasks of one load() fail, load() returns the error of
\* the failed task whose key comes earliest in metadata.keys, the first the
\* sequential join meets, whichever task failed first in time.
C23_FirstErrorOfSequentialJoin ==
    ld.pc = "done" /\ ld.kind = "f64" /\ Cardinality(FailedTasks) >= 2 =>
        LET earliest == CHOOSE i \in FailedTasks : \A j \in FailedTasks : i <= j
        IN  /\ ld.errors = [n \in 1..Cardinality(FailedTasks) |->
                               ld.tasks[CHOOSE i \in FailedTasks :
                                            Cardinality({j \in FailedTasks : j < i}) = n - 1].res.err]
            /\ ld.ret = Err(ld.tasks[earliest].res.err)

\* the second chunk fails first in time with a storage error, the first chunk
\* later with a decode error: load() returns the decode error
C23_Witness ==
    /\ ld.pc = "done"
    /\ ld.kind = "f64"
    /\ Len(ld.tasks) = 2
    /\ ld.first_failed = 2
    /\ ld.tasks[1].res = Err("Decode")
    /\ ld.tasks[2].res = Err("Storage")
    /\ ld.ret = Err("Decode")

\* the tasks of the load in progress that have run to completion
CompletedTasks == {i \in 1..Len(ld.tasks) : ld.tasks[i].st # "pending"}

\* C24: load() spawns exactly one task per key of metadata.keys, task i calling
\* the getter with the indices parsed from key i; the result of load() is
\* produced in one step, taken only after every task has completed and every
\* handle has been awaited, so that no partly merged buffer is ever visible.
C24_MergeAfterEveryTask ==
    /\ [](ld.pc # "idle" =>
            /\ Len(ld.tasks) = Len(md.keys)
            /\ \A i \in CompletedTasks :
                  ld.tasks[i].res = getter(parse_key_string(md.keys[i])).res
            /\ DOMAIN ld.chunk_map \subseteq {md.keys[i] : i \in CompletedTasks}
            /\ ld.pc = "joining" => ld.ret = IdleLoad.ret
            /\ ld.pc = "done" => CompletedTasks = 1..Len(md.keys))
    /\ [][ld'.ret # ld.ret =>
            /\ CompletedTasks = 1..Len(md.keys)
            /\ \A i \in 1..Len(ld.tasks) : ld.tasks[i].st = "joined"
            /\ ld'.pc = "done"]_vars

\* a load of two chunks has returned a merged buffer
C24_Witness ==
    /\ ld.pc = "done"
    /\ ld.ret.ok
    /\ Len(md.keys) = 2
    /\ CompletedTasks = 1..2
    /\ DOMAIN ld.chunk_map = Range(md.keys)

\* the answer of the store for chunk i of the array, and whether it is a
\* present, non-empty blob
BlobOfKey(i) == store_get(store_join(base_path, md.keys[i]))

PresentBlob(i) == BlobOfKey(i).ok /\ BlobOfKey(i).val.some /\ BlobOfKey(i).val.val # <<>>

\* the array's codec list with a Sharding codec put in at every position
ShardedPipelines ==
    LET cs == get_codec_equivalents(md)
    IN  {SubSeq(cs, 1, k) \o <<Codec("Sharding", "None")>> \o SubSeq(cs, k + 1, Len(cs)) :
            k \in 0..Len(cs)}

\* a parse_chunk outcome [res, ran] is an aborted decode of blob under codecs:
\* the error is the one of the first codec, from the end of the list, whose
\* decode fails, that codec is the last one run, and no codec before it in the
\* list has run
AbortedDecode(out, codecs, blob) ==
    /\ out.res = Err(FoldDecode(Reverse(codecs), blob).err)
    /\ out.ran # <<>>
    /\ LET f == out.ran[Len(out.ran)]
       IN  /\ out.ran = [j \in 1..(Len(codecs) + 1 - f) |-> Len(codecs) + 1 - j]
           /\ FoldDecode(Reverse(SubSeq(codecs, f + 1, Len(codecs))), blob).ok
           /\ ~FoldDecode(Reverse(SubSeq(codecs, f, Len(codecs))), blob).ok

FillChunkOfArray == fill_chunk(to_zarr_value(md.fill_value, md.dtype.data_type), md.chunks)

\* C25: when a codec fails on a present, non-empty blob the decode is aborted:
\* no codec earlier in the list runs, the chunk's getter returns that codec's
\* error and load() returns an error; so it is for every codec list holding a
\* Sharding codec.  A missing blob under the same codec list is a fill chunk.
C25_FailedCodecAbortsDecode ==
    \A i \in 1..Len(md.keys) :
        /\ PresentBlob(i) =>
              /\ \A cs \in ShardedPipelines :
                    LET out == parse_chunk(BlobOfKey(i).val, md.dtype.data_type, md.chunks,
                                           md.fill_value, cs)
                    IN  ~out.res.ok /\ AbortedDecode(out, cs, BlobOfKey(i).val.val)
              /\ ~FoldDecode(Reverse(get_codec_equivalents(md)), BlobOfKey(i).val.val).ok =>
                    /\ AbortedDecode(getter(parse_key_string(md.keys[i])),
                                     get_codec_equivalents(md), BlobOfKey(i).val.val)
                    /\ i \in CompletedTasks =>
                          ld.tasks[i].res = getter(parse_key_string(md.keys[i])).res
                    /\ ld.pc = "done" => ~ld.ret.ok
        /\ BlobOfKey(i) = Ok(None) =>
              /\ \A cs \in ShardedPipelines \cup {get_codec_equivalents(md)} :
                    parse_chunk(None, md.dtype.data_type, md.chunks, md.fill_value, cs)
                        = [res |-> Ok(FillChunkOfArray), ran |-> <<>>]
              /\ i \in CompletedTasks => ld.tasks[i].res = Ok(FillChunkOfArray)

\* chunk 0 is a blob Gzip cannot decode, chunk 1 is missing: the first task has
\* the decode error, the second a fill chunk, and load() returns the error
C25_Witness ==
    /\ ld.pc = "done"
    /\ Len(md.keys) = 2
    /\ Len(get_codec_equivalents(md)) = 2
    /\ PresentBlob(1)
    /\ BlobOfKey(2) = Ok(None)
    /\ ld.tasks[1].res = Err("Decode")
    /\ ld.tasks[2].res = Ok(FillChunkOfArray)
    /\ ld.ret = Err("Decode")

\* the compressor ids compressor_to_codecs has a codec for, in lower case
KnownCompressorIds ==
    {<<"g", "z", "i", "p">>, <<"z", "l", "i", "b">>, <<"l", "z", "4">>, <<"z", "s", "t", "d">>,
     <<"b", "l", "o", "s", "c">>, <<"l", "z", "4", "h", "c">>,
     <<"b", "l", "o", "s", "c", "l", "z">>, <<"s", "n", "a", "p", "p", "y">>}

UnknownCompressor ==
    md.compressor.some /\ to_lowercase(md.compressor.id) \notin KnownCompressorIds

\* C26: an array whose compressor id is none of the known ones has the Bytes
\* codec as its whole codec list; get_chunk reads every present, non-empty
\* blob as uncompressed data and never returns a Codec error.
C26_UnknownCompressorIsNoCompressor ==
    UnknownCompressor =>
        /\ compressor_to_codecs(md.compressor) = <<>>
        /\ get_codec_equivalents(md) = <<Codec("Bytes", md.dtype.byte_order)>>
        /\ \A slot \in DOMAIN calls :
              Returned(slot) =>
                  /\ calls[slot].res # Err("Codec")
                  /\ calls[slot].read /\ store_get(calls[slot].path).ok
                        /\ store_get(calls[slot].path).val.some
                        /\ store_get(calls[slot].path).val.val # <<>> =>
                        /\ calls[slot].ran = <<1>>
                        /\ calls[slot].res =
                              bytes_to_zarr_vector(DeclaredEndian, md.dtype.data_type,
                                                   store_get(calls[slot].path).val.val)

\* chunk 0 of a '>i2' array with compressor "bz2" has been read as raw bytes
C26_Witness ==
    /\ Returned(1)
    /\ md.compressor = Compressor(<<"b", "z", "2">>)
    /\ md.dtype = [data_type |-> "Int16", byte_order |-> "Big"]
    /\ calls[1].key = <<0>>
    /\ IsFull(KeyStr(calls[1].key))
    /\ calls[1].res.ok
    /\ calls[1].res = bytes_to_zarr_vector("Big", "Int16", RawOf(KeyStr(calls[1].key)))

\* an entry of the metadata map that is taken as a '.zarray' entry and whose
\* value ZarrV2Metadata::parse does not turn into metadata
FailingZarray(e) ==
    EndsWith(e.key, DotZarray) /\ ~is_filtered(e.key) /\ ~parse_entry(e.value).ok

RECURSIVE WithoutFailing(_)
WithoutFailing(entries) ==
    IF entries = <<>> THEN <<>>
    ELSE IF FailingZarray(Head(entries)) THEN WithoutFailing(Tail(entries))
    ELSE <<Head(entries)>> \o WithoutFailing(Tail(entries))

\* the descriptor without its failing '.zarray' entries, parsed
ParsedWithoutFailing ==
    ZarrConsolidatedMetadata_parse(
        [Descriptor EXCEPT !.metadata.entries = WithoutFailing(Descriptor.metadata.entries)])

\* C27: a '.zarray' entry whose value fails v2 metadata parsing does not make
\* the consolidated parse or the group open fail: open_group returns what it
\* returns for the descriptor without that entry, and the names of an opened
\* group are exactly the keys of its arrays map.
C27_FailingEntriesAreSkipped ==
    /\ ConsolidatedRun /\ Descriptor.kind = "object" /\ Descriptor.metadata.kind = "object"
          /\ (\E i \in 1..Len(Descriptor.metadata.entries) :
                 FailingZarray(Descriptor.metadata.entries[i])) =>
          \E names \in PermsOf(DOMAIN ParsedWithoutFailing.metadata) :
              gr.ret = open_group_consolidated(gr.path, ParsedWithoutFailing, names)
    /\ ConsolidatedRun /\ gr.ret.ok =>
          /\ Range(gr.ret.group.array_names) = DOMAIN gr.ret.group.arrays
          /\ Len(gr.ret.group.array_names) = Cardinality(DOMAIN gr.ret.group.arrays)

\* the turns (key, local index) of the merge loops whose assignment goes to the
\* flat index `flat`
WritesTo(flat) ==
    {t \in Range(md.keys) \X (1..Len(cartesian_indices(md.chunks))) :
        LET global == GlobalPos(cartesian_indices(md.chunks)[t[2]], parse_key_string(t[1]),
                                md.chunks)
        IN  /\ InBounds(global, md.shape)
            /\ ZipDot(global, strides(md.shape, md.order)) = flat
            /\ flat < Product(md.shape)
            /\ t[2] - 1 < Len(ChunkF64(t[1]))}

ShortChunks == {key \in Range(md.keys) : Len(ChunkF64(key)) < Product(md.chunks)}

MergedAsDecoded ==
    /\ ld.ret.ok
    /\ Len(ld.ret.val) = Product(md.shape)
    /\ \A g \in GlobalIndices :
          LET flat == linear_index(md.shape, md.order, g)
          IN  IF LocalOf(g) < Len(ChunkF64(KeyOf(g)))
              THEN /\ ld.ret.val[flat + 1] = ChunkF64(KeyOf(g))[LocalOf(g) + 1]
                   /\ WritesTo(flat) = {<<KeyOf(g), LocalOf(g) + 1>>}
              ELSE /\ ld.ret.val[flat + 1] = fill_to_f64(md.fill_value)
                   /\ WritesTo(flat) = {}
                   /\ KeyOf(g) \in ShortChunks
    /\ ShortChunks = {} =>
          \A flat \in 0..(Product(md.shape) - 1) : Cardinality(WritesTo(flat)) = 1

\* C28 as stated: when every chunk task of load() has succeeded, load() returns a
\* buffer; the in-bounds positions of a chunk beyond the chunk's length hold
\* fill_value.to_f64() and are written by no turn of the merge, every other
\* position holds its chunk's element and is written once; when no chunk is
\* shorter than product(chunk_shape) every flat index is written exactly once.
C28_ShortChunkKeepsPreFill ==
    AllTasksSucceeded /\ ld.kind = "f64" => MergedAsDecoded

\* C28 as amended: the same for a numeric dtype; with a String dtype the chunks
\* (fill chunks, of full length) do not convert to f64, load() returns
\* TypeConversion and nothing is written.
C28_ShortNumericChunkKeepsPreFill ==
    AllTasksSucceeded /\ ld.kind = "f64" =>
        IF md.dtype.data_type = "String" THEN ld.ret = Err("TypeConversion")
        ELSE MergedAsDecoded

\* shape = [2, 3], chunks = [2, 2], order F: the chunk of key 0.0 is one element
\* short, so that position [1, 1] keeps the fill value
C28_Witness ==
    /\ AllTasksSucceeded
    /\ ld.kind = "f64"
    /\ ld.ret.ok
    /\ md.shape = <<2, 3>>
    /\ md.chunks = <<2, 2>>
    /\ md.order = "F"
    /\ ShortChunks = {<<"0", ".", "0">>}
    /\ WritesTo(3) = {}
    /\ ld.ret.val[4] = fill_to_f64(md.fill_value)

\* C29: for a numeric dtype and a store on which load() and load_value() both
\* succeed, load()[i] is the f64 conversion of load_value()'s entry i for every
\* flat index i (the completed load is compared with what the other operation
\* makes of the same chunks).
C29_LoadAgreesWithLoadValue ==
    ld.pc = "done" /\ ld.ret.ok /\ md.dtype.data_type # "String" =>
        \A iter \in PermsOf(DOMAIN ld.chunk_map) :
            IF ld.kind = "f64"
            THEN to_f64_vec(merge_chunks_value(ld.chunk_map, md, iter).val) = Ok(ld.ret.val)
            ELSE merge_chunks(ld.chunk_map, md, iter) = to_f64_vec(ld.ret.val)

AllJoined == \A i \in 1..Len(ld.tasks) : ld.tasks[i].st = "joined"

\* C30: when every store.get of the chunk tasks returns, a load() that has
\* started returns, with the merged buffer or an error; the await of a handle
\* whose task has completed can always proceed; each handle is awaited once, in
\* the order of the keys, and all have been awaited when load() returns.
C30_LoadReturns ==
    /\ (ld.pc = "joining") ~>
          (ld.pc = "done" /\ AllJoined /\ (ld.ret.ok \/ ld.ret.err # IdleLoad.ret.err))
    /\ [](ld.pc = "joining" /\ ld.next <= Len(ld.tasks) /\ ld.tasks[ld.next].st = "done" =>
             ENABLED <<Join>>_vars)
    /\ [][\A i \in 1..Len(ld.tasks) :
              /\ ld.tasks[i].st = "joined" =>
                    /\ ld'.tasks[i] = ld.tasks[i]
                    /\ i < ld.next
              /\ ld.tasks[i].st # "joined" /\ ld'.tasks[i].st = "joined" =>
                    /\ ld.tasks[i].st = "done"
                    /\ ld.next = i
                    /\ ld'.next = i + 1]_vars

\* a load of two chunks whose store fails on the second has returned the error
C30_Witness ==
    /\ ld.pc = "done"
    /\ AllJoined
    /\ Len(ld.tasks) = 2
    /\ ld.tasks[1].res.ok
    /\ ld.tasks[2].res = Err("Storage")
    /\ ld.ret = Err("Storage")

====
